---- MODULE Spec2Model ----
(***************************************************************************)
(* PV module shading simulator: cell solver, LUT cache, string and module  *)
(* composition, and the background LUT start-up thread.                    *)
(*                                                                         *)
(* Fixed-point units: voltage in mV, current in cA (0.01 A), power in      *)
(* mV*cA, saturation current in pA.  All cells sit at 1000 W/m2 and 25 C,  *)
(* which the model treats as nodes of the LUT grid, and their shading      *)
(* factors are nodes of SHADING_GRID, so the 4-D multilinear interpolation *)
(* reduces to the current axis, which has the 200 nodes of CURRENT_GRID.    *)
(* exp(x/(n*Vt)) is evaluated as a chord approximation of 2^(x/HalfV).     *)
(* The round trip through the solver is computed at the resolution of its  *)
(* tolerances: voltage in 0.1 mV (xtol of brentq), current in mA.          *)
(*                                                                         *)
(* Specifications: Spec (calls one after the other), SpecConc (the start-  *)
(* up thread interleaved with requests), SpecEval (one PVModule evaluated  *)
(* repeatedly), SpecGen (the loop of generate_lut), SpecSolve (one         *)
(* voltage-for-current solve, pass by pass).                               *)
(***************************************************************************)
EXTENDS Integers, Sequences, FiniteSets, TLC

(* ---------------- program constants (config.py) ---------------- *)
Iph_ref == 1398          \* CELL_PARAMS['Iph_ref'] = 13.98 A
Voc_ref == 385           \* CELL_PARAMS['Voc_ref'] = 0.385 V
Vbr == 22000             \* CELL_PARAMS['Vbr_typical'] = 22 V
Rs == 8                  \* CELL_PARAMS['Rs'] = 0.0008 Ohm, in 1e-4 Ohm
Rsh == 5000              \* CELL_PARAMS['Rsh'] = 5000 Ohm
IsDefault == 80          \* CELL_PARAMS['Is'] = 8e-11 A, in pA
Vf == 400                \* BYPASS_DIODE['Vf'] = 0.4 V
HalfV == 16              \* n*Vt*ln 2 at 25 C: 0.92 * 25.69 mV * 0.693
NVt == 23                \* n*Vt at 25 C, mV
IsPerIph == 844          \* 1e10 * exp(-Voc_ref/(n*Vt)): Is in pA per cA of Iph
VaHalf == 347            \* Va*ln 2 with Va = 0.5 V
ExpClip == 1182          \* exp_arg clipped to +-50, i.e. V_diode to +-50*n*Vt
NumIter == 6             \* fixed-point iterations of the diode equation
VocIter == 3             \* shunt refinements of Voc
BisectIter == 40         \* passes of the bisection loop of _find_voltage_for_current_jit
VmaxCap == 6000          \* the cap of its forward bracket, 0.6 V, in 0.1 mV
VocDefault == 400        \* V_oc_estimate when Iph = 0 in the LUT generator
VxDefault == 441         \* voltage at which IsDefault*exp(V/(n*Vt)) reaches 1 cA
GridMaxCurrent == 1500   \* CURRENT_GRID upper end, 15 A
FastPoints == 30         \* find_mpp(fast=True)
FullPoints == 100        \* find_mpp(fast=False)
MarginPct == 105         \* iv_curve default range: min Isc * 1.05
cells_per_string == 36   \* BYPASS_DIODE['cells_per_string'], CellString's default num_cells
num_strings == 3         \* MODULE_STRUCTURE['num_strings']
HalfVx == 164            \* n*Vt*ln 2 at 25 C in 0.1 mV: 0.92 * 25.693 mV * 0.6931
GridPoints == 200        \* len(CURRENT_GRID) = 200

(* ---------------- bounds of the model ---------------- *)
NumStrings == 2          \* MODULE_STRUCTURE['num_strings'] (3 in config.py)
CellsPerString == 2      \* MODULE_STRUCTURE['cells_per_string'] (36 in config.py)
MaxShaded == 2           \* shaded cells of a module

(* ---------------- arithmetic helpers ---------------- *)
Quot(a, b) == IF a >= 0 THEN a \div b ELSE -((-a) \div b)
Min(a, b) == IF a <= b THEN a ELSE b
Max(a, b) == IF a >= b THEN a ELSE b
Abs(a) == IF a >= 0 THEN a ELSE -a

\* the sequence <<F(1), ..., F(n)>>, its elements evaluated once
MkSeq(n, F(_)) == SubSeq([k \in 1 .. n |-> F(k)], 1, n)

RECURSIVE SumTo(_, _)
SumTo(s, n) == IF n = 0 THEN 0 ELSE SumTo(s, n - 1) + s[n]
SumSeq(s) == SumTo(s, Len(s))

\* x * 2^(d/h), chord approximation between consecutive powers of two
Exp2(x, d, h) ==
  IF d >= 0
  THEN LET k == d \div h
           r == d % h
       IN  x * (2 ^ k) + (x * (2 ^ k) * r) \div h
  ELSE LET k == ((-d) + h - 1) \div h
           r == k * h + d
       IN  IF k >= 20 THEN 0 ELSE (x * (h + r)) \div (h * (2 ^ k))

(* ---------------- cell model (physics/cell_model.py) ---------------- *)
\* np.clip bounding the shading factor from above only
ClipShadingUpperOnly(sh) == Min(100, sh)

\* SolarCell.__init__: shading_factor = clip(shading_factor, 0, 1), in percent
ClipShading(sh) == Min(100, Max(0, sh))

\* SolarCell._calculate_photocurrent, lut_cache.calculate_photocurrent:
\* Iph_ref * (irradiance / 1000) * (1 + alpha_Isc * dT) * (1 - shading_factor),
\* alpha_Isc = 0.00014 per degree; shading is the factor the cell holds, in percent
calculate_photocurrent(irradiance, temperature, shading) ==
  LET Iph_base == Quot(Iph_ref * irradiance, 1000)
      Iph_temp == Quot(Iph_base * (100000 + 14 * (temperature - 25)), 100000)
  IN  Quot(Iph_temp * (100 - shading), 100)

\* SolarCell(irradiance, temperature, shading_factor): the attributes set by
\* __init__ up to the photocurrent
SolarCellAt(irradiance, temperature, shading_factor) ==
  [irradiance |-> irradiance, temperature |-> temperature,
   shading_factor |-> ClipShading(shading_factor),
   Iph |-> calculate_photocurrent(irradiance, temperature,
                                  ClipShading(shading_factor))]

\* SolarCell._calculate_photocurrent at 1000 W/m2, 25 C
Photocurrent(sh) == (Iph_ref * (100 - ClipShading(sh))) \div 100

\* SolarCell.__init__: Is = Iph * exp(-Voc_target/(n*Vt)), in pA
SaturationCurrent(Iph) == Iph * IsPerIph

\* lut_cache.calculate_saturation_current: the default Is when Iph <= 1e-9
LutSaturationCurrent(Iph) == IF Iph > 0 THEN Iph * IsPerIph ELSE IsDefault

\* Is * (exp(clip(V_diode/(n*Vt), -50, 50)) - 1); Is itself is below 1 cA
DiodeCurrent(Iph, Is, Vd, h) ==
  LET v == Min(ExpClip, Max(-ExpClip, Vd))
  IN  IF Is = 0 THEN 0
      ELSE IF Iph > 0 THEN Exp2(Iph, v - Voc_ref, h)
      ELSE Exp2(1, v - VxDefault, h)

\* the relaxed fixed-point iteration of _calculate_cell_current_jit
RECURSIVE Relax(_, _, _, _, _, _)
Relax(V, Iph, Is, h, I, k) ==
  IF k = 0 THEN I
  ELSE LET Vd == V + Quot(I * Rs, 1000)
           Inew == Iph - DiodeCurrent(Iph, Is, Vd, h) - Quot(Vd, Rsh * 10)
       IN  Relax(V, Iph, Is, h, Quot(I + Inew, 2), k - 1)

\* _calculate_avalanche_current_jit
AvalancheCurrent(V, Is) ==
  LET Vex == Abs(V) - Vbr
      IleakMicro == Quot(Is * 100, 1000000)
  IN  IF Vex > 0
      THEN -Quot(Exp2(IleakMicro, Vex, VaHalf), 10000)
      ELSE -Quot(IleakMicro, 10000) + Quot(Vex, Rsh * 10)

\* SolarCell.current: single-diode branch above -0.95*Vbr, avalanche below
CellCurrent(V, Iph, Is, h) ==
  IF V * 100 > -(Vbr * 95)
  THEN Relax(V, Iph, Is, h, Iph, NumIter)
  ELSE AvalancheCurrent(V, Is)

\* n*Vt*ln(x/Is) for x close to Iph (first-order logarithm around Iph)
LnV(x, Iph) == Voc_ref - Quot((Iph - x) * NVt, Iph)

RECURSIVE RefineVoc(_, _, _)
RefineVoc(Voc, Iph, k) ==
  IF k = 0 THEN Voc
  ELSE RefineVoc(LnV(Iph - Quot(Voc, Rsh * 10), Iph), Iph, k - 1)

\* SolarCell.get_Voc
get_Voc(Iph, Is) ==
  IF Iph > 0 /\ Is > 0 THEN RefineVoc(LnV(Iph, Iph), Iph, VocIter) ELSE 0

\* SolarCell.get_Isc
get_Isc(Iph, Is) == CellCurrent(0, Iph, Is, HalfV)

Sign(x) == IF x > 0 THEN 1 ELSE IF x < 0 THEN -1 ELSE 0

\* scipy brentq on objective(v) = current(v) - target over [a, b], xtol below 1 mV:
\* a root at an end is returned, equal signs at both ends raise ValueError.
\* sa is the sign of the objective at a.
RECURSIVE Bisect(_, _, _, _, _, _, _)
Bisect(Iph, Is, h, target, a, b, sa) ==
  IF b - a <= 1
  THEN (IF Abs(CellCurrent(a, Iph, Is, h) - target) <= Abs(CellCurrent(b, Iph, Is, h) - target)
        THEN a ELSE b)
  ELSE LET m == (a + b) \div 2
           sm == Sign(CellCurrent(m, Iph, Is, h) - target)
       IN  IF sm = 0 THEN m
           ELSE IF sm = sa THEN Bisect(Iph, Is, h, target, m, b, sa)
           ELSE Bisect(Iph, Is, h, target, a, m, sa)

Brentq(Iph, Is, h, target, a, b) ==
  LET sa == Sign(CellCurrent(a, Iph, Is, h) - target)
      sb == Sign(CellCurrent(b, Iph, Is, h) - target)
  IN  IF sa = 0 THEN [ok |-> TRUE, v |-> a]
      ELSE IF sb = 0 THEN [ok |-> TRUE, v |-> b]
      ELSE IF sa = sb THEN [ok |-> FALSE, v |-> 0]
      ELSE [ok |-> TRUE, v |-> Bisect(Iph, Is, h, target, a, b, sa)]

\* SolarCell.find_operating_point (the exact solver) for a cell of shading sh
ExactOperatingPoint(sh, target) ==
  LET Iph == Photocurrent(sh)
      Is == SaturationCurrent(Iph)
      Voc == get_Voc(Iph, Is)
      hi == Quot(Voc * 11, 10)
      inFwd == target >= 0 /\ target * 100 <= Iph * 101
      fwd == Brentq(Iph, Is, HalfV, target, 0, hi)
      wide == Brentq(Iph, Is, HalfV, target, -Vbr, hi)
  IN  IF inFwd /\ fwd.ok THEN fwd.v
      ELSE IF wide.ok THEN wide.v
      ELSE IF target >= 0
           THEN (IF Iph = 0 \/ target >= Iph THEN 0
                 ELSE Voc - Quot(Voc * target, Iph))
           ELSE -Vbr

\* find_operating_point: TRUE iff neither brentq call returns, i.e. the forward
\* bracket is skipped or raises ValueError and the wide bracket raises ValueError
BracketFails(sh, target) ==
  LET Iph == Photocurrent(sh)
      Is == SaturationCurrent(Iph)
      hi == Quot(get_Voc(Iph, Is) * 11, 10)
      inFwd == target >= 0 /\ target * 100 <= Iph * 101
  IN  /\ ~(inFwd /\ Brentq(Iph, Is, HalfV, target, 0, hi).ok)
      /\ ~Brentq(Iph, Is, HalfV, target, -Vbr, hi).ok

\* targets of the exact solver around and beyond the photocurrent (15 A is the end
\* of CURRENT_GRID, beyond every cell's Iph)
FallbackTargets == {-3000, -1, 0, 650, Iph_ref, GridMaxCurrent, 3000}

\* The solver at the resolution of its tolerances: voltages in 0.1 mV, the xtol
\* of brentq, currents in mA.  Resistances keep their value when both units are
\* ten times finer.
\* _calculate_cell_current_jit: the relaxed fixed-point iteration
RECURSIVE RelaxX(_, _, _, _)
RelaxX(V, Iph, I, k) ==
  IF k = 0 THEN I
  ELSE LET Vd == V + Quot(I * Rs, 1000)
           v == Min(ExpClip * 10, Max(-(ExpClip * 10), Vd))
           Inew == Iph - Exp2(Iph, v - Voc_ref * 10, HalfVx) - Quot(Vd, Rsh * 10)
       IN  RelaxX(V, Iph, Quot(I + Inew, 2), k - 1)

\* SolarCell.current(V) of a cell with photocurrent Iph
CurrentX(V, Iph) ==
  IF V * 100 > -(Vbr * 10 * 95)
  THEN RelaxX(V, Iph, Iph, NumIter)
  ELSE AvalancheCurrent(Quot(V, 10), SaturationCurrent(Quot(Iph, 10))) * 10

\* brentq(objective, a, b, xtol=1e-4): the bracket is halved down to xtol
RECURSIVE BisectX(_, _, _, _, _)
BisectX(Iph, target, a, b, sa) ==
  IF b - a <= 1
  THEN (IF Abs(CurrentX(a, Iph) - target) <= Abs(CurrentX(b, Iph) - target)
        THEN a ELSE b)
  ELSE LET m == (a + b) \div 2
           sm == Sign(CurrentX(m, Iph) - target)
       IN  IF sm = 0 THEN m
           ELSE IF sm = sa THEN BisectX(Iph, target, m, b, sa)
           ELSE BisectX(Iph, target, a, m, sa)

BrentqX(Iph, target, a, b) ==
  LET sa == Sign(CurrentX(a, Iph) - target)
      sb == Sign(CurrentX(b, Iph) - target)
  IN  IF sa = 0 THEN [ok |-> TRUE, v |-> a]
      ELSE IF sb = 0 THEN [ok |-> TRUE, v |-> b]
      ELSE IF sa = sb THEN [ok |-> FALSE, v |-> 0]
      ELSE [ok |-> TRUE, v |-> BisectX(Iph, target, a, b, sa)]

\* SolarCell.find_operating_point(target) of a cell with shading factor sh
OperatingPointX(sh, target) ==
  LET Iph == Photocurrent(sh) * 10
      Voc == get_Voc(Photocurrent(sh), SaturationCurrent(Photocurrent(sh))) * 10
      hi == Quot(Voc * 11, 10)
      inFwd == target >= 0 /\ target * 100 <= Iph * 101
      fwd == BrentqX(Iph, target, 0, hi)
      wide == BrentqX(Iph, target, -(Vbr * 10), hi)
  IN  IF inFwd /\ fwd.ok THEN fwd.v
      ELSE IF wide.ok THEN wide.v
      ELSE IF target >= 0
           THEN (IF Iph = 0 \/ target >= Iph THEN 0
                 ELSE Voc - Quot(Voc * target, Iph))
           ELSE -(Vbr * 10)

\* v = cell.find_operating_point(target_i); i_check = cell.current(v)
RoundTrip(sh, target) ==
  [Iph |-> Photocurrent(sh) * 10,
   v |-> OperatingPointX(sh, target),
   i_check |-> CurrentX(OperatingPointX(sh, target), Photocurrent(sh) * 10)]

\* get_Isc of the cell with shading factor sh
CellIsc(sh) == get_Isc(Photocurrent(sh), SaturationCurrent(Photocurrent(sh)))

\* the currents the model forces through cells, strings and modules directly
ForcedCurrents == {-3000, -1, 0, 650, 1350}

\* string_current_at_voltage: current_guess, or cells[0].get_Isc() * 0.5 when None
CurrentGuesses == {-3000, 650}
DefaultGuess(sh) == CellIsc(sh) \div 2

\* the currents of the default sweeps of find_mpp
SweepCurrents ==
  UNION {{Quot(Quot(CellIsc(sh) * MarginPct, 100) * (k - 1), n - 1) : k \in 1 .. n} :
           sh \in {0, 50, 100}, n \in {FastPoints, FullPoints}}

\* the operating current of the bypass and hot-spot scenarios (5 A)
ScenarioCurrents == {500}

\* sample currents of the accuracy comparison: the photocurrent of each shading
AccuracyCurrents == {Photocurrent(sh) : sh \in {0, 50, 100}}

\* every current a cell of the model is asked for
ModelCurrents ==
  ForcedCurrents \cup SweepCurrents \cup CurrentGuesses \cup ScenarioCurrents
    \cup AccuracyCurrents
    \cup {DefaultGuess(sh) : sh \in {0, 50, 100}}

\* ExactOperatingPoint tabulated over the shadings and currents of the model
ExactTable ==
  [sh \in {0, 50, 100} |-> [I \in ModelCurrents |-> ExactOperatingPoint(sh, I)]]

\* SolarCell.find_operating_point of a cell with shading factor sh
find_operating_point(sh, target) == ExactTable[sh][target]

(* ---------------- LUT generator and cache (physics/lut_cache.py) ---------------- *)
\* The constants a grid is generated from: cell = the CELL_PARAMS dictionary,
\* phys = BOLTZMANN and ELEMENTARY_CHARGE (the thermal voltage).  0 is the value
\* of config.py in this run, 1 an edited value of an earlier run.
Params == [cell : {0, 1}, phys : {0, 1}]
CurrentParams == [cell |-> 0, phys |-> 0]

\* n*Vt*ln 2 under the constants p: Vt = BOLTZMANN * T / ELEMENTARY_CHARGE
ThermalHalfV(phys) == IF phys = 0 THEN HalfV ELSE HalfV + 1

\* get_cell_params_hash: md5 of json.dumps(CELL_PARAMS), nothing else
get_cell_params_hash(p) == p.cell

\* SHADING_GRID nodes used by the model's cells (percent)
Shadings == {0, 50, 100}

\* CURRENT_GRID = linspace(0, 15, len)
GridCurrent(k) == (k * GridMaxCurrent) \div (GridPoints - 1)

\* calculate_cell_voltage_for_current, the generator's own copy of the solver
LutGridVoltage(sh, current, h) ==
  LET Iph == Photocurrent(sh)
      Is == LutSaturationCurrent(Iph)
      VocEst == IF Iph > 0 /\ Is > 0 THEN LnV(Iph, Iph) ELSE VocDefault
      inFwd == current >= 0 /\ current * 100 <= Iph * 101
      r == IF inFwd
           THEN Brentq(Iph, Is, h, current, 0, Min(Quot(VocEst * 12, 10), 600))
           ELSE Brentq(Iph, Is, h, current, -Vbr, 600)
  IN  IF r.ok THEN r.v
      ELSE IF current >= 0
           THEN (IF Iph = 0 \/ current >= Iph THEN 0
                 ELSE VocEst - Quot(VocEst * current, Iph))
           ELSE -Vbr

\* generate_lut: the voltage grid for every (shading, current) node, under
\* either value of the thermal constants
LutTables ==
  [phys \in {0, 1} |->
    [sh \in {0, 50, 100} |->
      [k \in 0 .. (GridPoints - 1) |->
        LutGridVoltage(sh, GridCurrent(k), ThermalHalfV(phys))]]]

\* np.linspace(start, stop, num): an axis array, kept by what determines it
Axis(start, stop, num) == [start |-> start, stop |-> stop, num |-> num]

\* axis.tolist(), rounded to the unit of the axis
tolist(axis) ==
  MkSeq(axis.num, LAMBDA k :
    axis.start + ((k - 1) * (axis.stop - axis.start)) \div (axis.num - 1))

\* the grid constants of lut_cache.py: W/m2, degrees C, percent, 0.01 A
IRRADIANCE_GRID == Axis(200, 1000, 10)
TEMPERATURE_GRID == Axis(-20, 90, 12)
SHADING_GRID == Axis(0, 100, 11)
CURRENT_GRID == Axis(0, GridMaxCurrent, GridPoints)
Grids == [irradiance |-> IRRADIANCE_GRID, temperature |-> TEMPERATURE_GRID,
          shading |-> SHADING_GRID, current |-> CURRENT_GRID]

\* the grids of a cache written by a revision of lut_cache.py with a coarser
\* irradiance axis (the STC node 1000 W/m2 is on both)
OldGrids == [Grids EXCEPT !.irradiance = Axis(200, 1000, 9)]

\* shape = (len(IRRADIANCE_GRID), len(TEMPERATURE_GRID), len(SHADING_GRID),
\*          len(CURRENT_GRID)) of np.zeros(shape, dtype=np.float32)
ShapeOf(grids) == <<grids.irradiance.num, grids.temperature.num,
                    grids.shading.num, grids.current.num>>

RECURSIVE ProductTo(_, _)
ProductTo(s, n) == IF n = 0 THEN 1 ELSE ProductTo(s, n - 1) * s[n]
Product(s) == ProductTo(s, Len(s))

\* Python values of the metadata dictionary, with their types
NpStr(v) == [t |-> "np.str_", v |-> v]
PyStr(v) == [t |-> "str", v |-> v]
PyInt(v) == [t |-> "int", v |-> v]
PyFloat(v) == [t |-> "float", v |-> v]

\* metadata of generate_lut besides 'cell_params_hash': generation_date is
\* np.datetime64('now').astype(str), grid_shapes the len() of each grid,
\* total_size_mb = voltage_lut.nbytes / (1024 * 1024), kept in bytes
MetadataOf(grids) ==
  [generation_date |-> NpStr("now"),
   grid_shapes |-> [irradiance |-> PyInt(grids.irradiance.num),
                    temperature |-> PyInt(grids.temperature.num),
                    shading |-> PyInt(grids.shading.num),
                    current |-> PyInt(grids.current.num)],
   total_size_mb |-> PyFloat(Product(ShapeOf(grids)) * 4)]

\* json.dumps of one value: a str or one of its subclasses becomes a JSON string,
\* an int a JSON integer, a float a JSON number with a fraction
JsonValue(x) ==
  IF x.t \in {"str", "np.str_"} THEN [j |-> "string", v |-> x.v]
  ELSE [j |-> "number", v |-> x.v, fraction |-> x.t = "float"]

\* json.loads of one value: str, int or float
PyValue(y) ==
  IF y.j = "string" THEN PyStr(y.v)
  ELSE IF y.fraction THEN PyFloat(y.v) ELSE PyInt(y.v)

\* json.dumps(lut_data['metadata']) and json.loads(str(data['metadata']))
json_dumps(metadata) ==
  [generation_date |-> JsonValue(metadata.generation_date),
   grid_shapes |-> [k \in DOMAIN metadata.grid_shapes |->
                      JsonValue(metadata.grid_shapes[k])],
   total_size_mb |-> JsonValue(metadata.total_size_mb)]
json_loads(text) ==
  [generation_date |-> PyValue(text.generation_date),
   grid_shapes |-> [k \in DOMAIN text.grid_shapes |-> PyValue(text.grid_shapes[k])],
   total_size_mb |-> PyValue(text.total_size_mb)]

\* total_iterations = len(IRRADIANCE_GRID) * len(TEMPERATURE_GRID) * len(SHADING_GRID)
total_iterations(grids) ==
  grids.irradiance.num * grids.temperature.num * grids.shading.num

\* percent rounded up instead of truncated
ProgressPercentCeil(iteration, total) == (100 * iteration + total - 1) \div total

\* percent = int(100 * iteration / total_iterations)
ProgressPercent(iteration, total) == (100 * iteration) \div total

\* generate_lut's return value; the grid is named by the constants it was
\* computed from (voltage_lut = LutTables[gen]) and carries its shape;
\* cell_params_hash is the entry of that name in metadata (a str), metadata
\* the other entries
LutData(p, grids) ==
  [gen |-> p, shape |-> ShapeOf(grids), grids |-> grids,
   cell_params_hash |-> get_cell_params_hash(p),
   metadata |-> MetadataOf(grids)]
generate_lut == LutData(CurrentParams, Grids)

\* the cache file: absent, not loadable by np.load, or an npz archive whose
\* metadata member and array members can be intact or damaged independently
\* save_lut: np.savez_compressed of the arrays under the member names
\* voltage_lut, irradiance_grid, temperature_grid, shading_grid, current_grid and
\* of json.dumps(metadata) under metadata
save_lut(lut_data) ==
  [exists |-> TRUE, readable |-> TRUE, arrays_ok |-> TRUE,
   gen |-> lut_data.gen, shape |-> lut_data.shape,
   irradiance_grid |-> lut_data.grids.irradiance,
   temperature_grid |-> lut_data.grids.temperature,
   shading_grid |-> lut_data.grids.shading,
   current_grid |-> lut_data.grids.current,
   cell_params_hash |-> lut_data.cell_params_hash,
   metadata |-> json_dumps(lut_data.metadata)]

NpzFile(p, ok, grids) == [save_lut(LutData(p, grids)) EXCEPT !.arrays_ok = ok]
NoFile == [NpzFile(CurrentParams, FALSE, Grids) EXCEPT
             !.exists = FALSE, !.readable = FALSE, !.cell_params_hash = 0]
GarbageFile == [NoFile EXCEPT !.exists = TRUE]
CacheFiles ==
  {NoFile, GarbageFile, NpzFile(CurrentParams, TRUE, OldGrids)}
    \cup {NpzFile(p, ok, Grids) : p \in Params, ok \in BOOLEAN}

\* load_lut reading the axis members into the wrong keys
load_lutSwappedAxes(file) ==
  IF file.exists /\ file.readable /\ file.arrays_ok
  THEN [raised |-> FALSE,
        lut_data |-> [gen |-> file.gen, shape |-> file.shape,
                      grids |-> [irradiance |-> file.temperature_grid,
                                 temperature |-> file.irradiance_grid,
                                 shading |-> file.shading_grid,
                                 current |-> file.current_grid],
                      cell_params_hash |-> file.cell_params_hash,
                      metadata |-> json_loads(file.metadata)]]
  ELSE [raised |-> TRUE, lut_data |-> generate_lut]

\* load_lut: reads every array member and the metadata; raises when a member is damaged
load_lut(file) ==
  IF file.exists /\ file.readable /\ file.arrays_ok
  THEN [raised |-> FALSE,
        lut_data |-> [gen |-> file.gen, shape |-> file.shape,
                      grids |-> [irradiance |-> file.irradiance_grid,
                                 temperature |-> file.temperature_grid,
                                 shading |-> file.shading_grid,
                                 current |-> file.current_grid],
                      cell_params_hash |-> file.cell_params_hash,
                      metadata |-> json_loads(file.metadata)]]
  ELSE [raised |-> TRUE, lut_data |-> generate_lut]

\* check_lut_validity: reads the metadata member only
check_lut_validity(file) ==
  IF ~file.exists THEN FALSE
  ELSE IF ~file.readable THEN FALSE
  ELSE file.cell_params_hash = get_cell_params_hash(CurrentParams)

\* create_interpolator: a RegularGridInterpolator over the grid of lut_data
NoInterpolator == [built |-> FALSE, gen |-> CurrentParams]
create_interpolator(lut_data) == [built |-> TRUE, gen |-> lut_data.gen]

\* initialize_lut(cache_filepath, force_regenerate): result and the file afterwards
initialize_lut(file, force) ==
  IF ~force /\ file.exists /\ check_lut_validity(file)
  THEN LET l == load_lut(file)
       IN  [raised |-> l.raised, loaded |-> ~l.raised, lut_data |-> l.lut_data,
            interpolator |-> IF l.raised THEN NoInterpolator
                             ELSE create_interpolator(l.lut_data),
            file |-> file]
  ELSE [raised |-> FALSE, loaded |-> FALSE, lut_data |-> generate_lut,
        interpolator |-> create_interpolator(generate_lut),
        file |-> save_lut(generate_lut)]

\* lut_export of api_get_lut and export_lut_to_client: the axes are the module
\* constants' tolist(), voltage_lut is lut_data['voltage_lut'].flatten().tolist()
\* (the values of the grid gen in C order, size of them), shape the array's shape
lut_export(lut_data) ==
  [status |-> "ok",
   irradiance |-> tolist(IRRADIANCE_GRID),
   temperature |-> tolist(TEMPERATURE_GRID),
   shading |-> tolist(SHADING_GRID),
   current |-> tolist(CURRENT_GRID),
   voltage_lut |-> [gen |-> lut_data.gen, order |-> "C",
                    size |-> Product(lut_data.shape)],
   shape |-> lut_data.shape]

\* the body of both export handlers: 503 / None before the LUT is initialized,
\* 404 / None without a cache file, 500 / None when load_lut raises
export_lut_to_client(initialized, file) ==
  IF ~initialized THEN [status |-> "not initialized"]
  ELSE IF ~file.exists THEN [status |-> "not found"]
  ELSE IF load_lut(file).raised THEN [status |-> "error"]
  ELSE lut_export(load_lut(file).lut_data)

\* api_get_lut without the test of lut_status['initialized']
api_get_lutUngated(initialized, file) ==
  IF ~file.exists THEN [code |-> 404, body |-> [status |-> "LUT cache not found"]]
  ELSE IF load_lut(file).raised THEN [code |-> 500, body |-> [status |-> "error"]]
  ELSE [code |-> 200, body |-> lut_export(load_lut(file).lut_data)]

\* api_get_lut: the HTTP status and the JSON body of GET /api/lut
api_get_lut(initialized, file) ==
  IF ~initialized THEN [code |-> 503, body |-> [status |-> "LUT not initialized"]]
  ELSE IF ~file.exists THEN [code |-> 404, body |-> [status |-> "LUT cache not found"]]
  ELSE IF load_lut(file).raised THEN [code |-> 500, body |-> [status |-> "error"]]
  ELSE [code |-> 200, body |-> lut_export(load_lut(file).lut_data)]

\* RegularGridInterpolator(method='linear', bounds_error=False, fill_value=None):
\* linear in the enclosing interval, linear extrapolation from the end intervals
GridInterval(current) ==
  IF current <= 0 THEN 0
  ELSE IF current >= GridCurrent(GridPoints - 1) THEN GridPoints - 2
  ELSE LET j == (current * (GridPoints - 1)) \div GridMaxCurrent
       IN  IF current < GridCurrent(j) THEN j - 1
           ELSE IF current >= GridCurrent(j + 1) THEN j + 1
           ELSE j

Linear(tab, k, current) ==
  tab[k] + Quot((tab[k + 1] - tab[k]) * (current - GridCurrent(k)),
                GridCurrent(k + 1) - GridCurrent(k))

Interpolate(interp, sh, current) ==
  Linear(LutTables[interp.gen.phys][sh], GridInterval(current), current)

\* find_operating_point letting the exception of the lookup escape
LUTFindOperatingPointNoExcept(sh, target, loaded, interp, raises) ==
  [v |-> IF loaded /\ interp.built /\ ~raises
         THEN Interpolate(interp, sh, target)
         ELSE ExactTable[sh][target],
   path |-> IF ~loaded \/ ~interp.built THEN "exact" ELSE "lut",
   exc |-> loaded /\ interp.built /\ raises]

\* LUTSolarCell.find_operating_point: loaded and interp are the class attributes
\* lut_loaded and lut_interpolator as read by the call, raises the outcome of the lookup
LookupPath(loaded, interp, raises) ==
  IF ~loaded \/ ~interp.built THEN "exact"
  ELSE IF ~raises THEN "lut"
  ELSE "fallback"

LUTFindOperatingPoint(sh, target, loaded, interp, raises) ==
  [v |-> IF LookupPath(loaded, interp, raises) = "lut"
         THEN Interpolate(interp, sh, target)
         ELSE find_operating_point(sh, target),
   path |-> LookupPath(loaded, interp, raises),
   exc |-> FALSE]

\* SolarCell.is_in_breakdown(voltage): voltage < -Vbr * 0.9
is_in_breakdown(voltage) == voltage * 10 < -(Vbr * 9)

\* SolarCell.hotspot_power(current): -voltage * current when the operating point
\* is negative, 0.0 otherwise; voltage is self.find_operating_point(current)
hotspot_power(sh, current, loaded, interp, raises) ==
  LET voltage == LUTFindOperatingPoint(sh, current, loaded, interp, raises).v
  IN  [voltage |-> voltage,
       power |-> IF voltage < 0 THEN (-voltage) * current ELSE 0]

(* ---------------- string and module composition ---------------- *)
\* string_voltage_at_current without the clamp: the raw sum is exposed as 'voltage'
StringResultNoClamp(cv, current) ==
  [voltage |-> SumSeq(cv),
   cell_voltages |-> cv,
   bypass_active |-> SumSeq(cv) < -Vf,
   bypass_current |-> IF SumSeq(cv) < -Vf THEN Quot(current * 9, 10) ELSE 0,
   raw_string_voltage |-> SumSeq(cv)]

\* string_voltage_at_current recording 'raw_string_voltage' after the clamp
StringResultRawClamped(cv, current) ==
  [voltage |-> IF SumSeq(cv) < -Vf THEN -Vf ELSE SumSeq(cv),
   cell_voltages |-> cv,
   bypass_active |-> SumSeq(cv) < -Vf,
   bypass_current |-> IF SumSeq(cv) < -Vf THEN Quot(current * 9, 10) ELSE 0,
   raw_string_voltage |-> IF SumSeq(cv) < -Vf THEN -Vf ELSE SumSeq(cv)]

\* CellString.string_voltage_at_current after the per-cell loop: cv are the cell
\* voltages in cell order
StringResult(cv, current) ==
  LET string_voltage == SumSeq(cv)
      bypass_active == string_voltage < -Vf
  IN  [voltage |-> IF bypass_active THEN -Vf ELSE string_voltage,
       cell_voltages |-> cv,
       bypass_active |-> bypass_active,
       bypass_current |-> IF bypass_active THEN Quot(current * 9, 10) ELSE 0,
       raw_string_voltage |-> string_voltage]

\* [cell.find_operating_point(current) for cell in self.cells]
CellVoltages(str, current, loaded, interp, raises) ==
  MkSeq(Len(str), LAMBDA i :
    LUTFindOperatingPoint(str[i], current, loaded, interp, raises).v)

\* CellString.string_voltage_at_current for the cells (shading factors) of one string
string_voltage_at_current(str, current, loaded, interp, raises) ==
  StringResult(CellVoltages(str, current, loaded, interp, raises), current)

\* string_current_at_voltage, the try branch: cv are the cell voltages at the
\* current fsolve returned
StringCurrentResult(cv, current) ==
  [current |-> current,
   cell_voltages |-> cv,
   bypass_active |-> SumSeq(cv) < -Vf,
   string_voltage |-> SumSeq(cv)]

\* string_current_at_voltage, the except branch
StringCurrentFailed(n) ==
  [current |-> 0,
   cell_voltages |-> [i \in 1 .. n |-> 0],
   bypass_active |-> FALSE,
   string_voltage |-> 0]

\* scipy fsolve from the guess g, where the objective has the value atGuess: with
\* the objective zero at g it returns g (MINPACK hybrd stops on fnorm = 0);
\* otherwise it returns the iterate x it ended on, converged or not, or raises
Fsolve(atGuess, g, x, raised) ==
  /\ atGuess = 0 => (x = g /\ ~raised)
  /\ raised => x = g

\* CellString.string_current_at_voltage(voltage, current_guess) with fsolve's
\* outcome (x, raised)
string_current_at_voltage(str, x, raised, loaded, interp, raises) ==
  IF raised THEN StringCurrentFailed(Len(str))
  ELSE StringCurrentResult(CellVoltages(str, x, loaded, interp, raises), x)

Count(bs) == Cardinality({i \in 1 .. Len(bs) : bs[i]})

\* module_voltage_at_current adding up the strings' raw (pre-clamp) voltages
ModuleResultRawSum(srs, current) ==
  [voltage |-> SumSeq(MkSeq(Len(srs), LAMBDA i : srs[i].raw_string_voltage)),
   current |-> current,
   total_power |-> SumSeq(MkSeq(Len(srs), LAMBDA i : srs[i].raw_string_voltage)) * current,
   string_results |-> srs,
   bypass_states |-> MkSeq(Len(srs), LAMBDA i : srs[i].bypass_active),
   num_bypassed_strings |-> Count(MkSeq(Len(srs), LAMBDA i : srs[i].bypass_active))]

\* PVModule.module_voltage_at_current after the loop over the strings
ModuleResult(srs, current) ==
  LET total_voltage == SumSeq(MkSeq(Len(srs), LAMBDA i : srs[i].voltage))
      bypass_states == MkSeq(Len(srs), LAMBDA i : srs[i].bypass_active)
  IN  [voltage |-> total_voltage,
       current |-> current,
       total_power |-> total_voltage * current,
       string_results |-> srs,
       bypass_states |-> bypass_states,
       num_bypassed_strings |-> Count(bypass_states)]

module_voltage_at_current(mod, current, loaded, interp, raises) ==
  ModuleResult(MkSeq(Len(mod), LAMBDA s :
                  string_voltage_at_current(mod[s], current, loaded, interp, raises)),
               current)

MinOf(S) == CHOOSE x \in S : \A y \in S : x <= y

\* min([cell.get_Isc() for cell in string.cells])
StringIsc(str) == MinOf({CellIsc(str[i]) : i \in 1 .. Len(str)})

\* PVModule.iv_curve, current_range is None: I_max = min(Isc_values) * 1.05
DefaultIMax(mod) ==
  Quot(MinOf({StringIsc(mod[s]) : s \in 1 .. Len(mod)}) * MarginPct, 100)

\* np.linspace(a, b, points)
Linspace(a, b, points) ==
  MkSeq(points, LAMBDA k : a + Quot((b - a) * (k - 1), points - 1))

\* PVModule.iv_curve: the arrays collected from the per-current results rs
IvData(currents, rs) ==
  [currents |-> currents,
   voltages |-> MkSeq(Len(rs), LAMBDA k : rs[k].voltage),
   powers |-> MkSeq(Len(rs), LAMBDA k : rs[k].total_power),
   bypass_states |-> MkSeq(Len(rs), LAMBDA k : rs[k].bypass_states)]

\* PVModule.iv_curve: the loop over the currents
IvSweep(mod, currents, loaded, interp, raises) ==
  IvData(currents,
         MkSeq(Len(currents), LAMBDA k :
           module_voltage_at_current(mod, currents[k], loaded, interp, raises)))

\* PVModule.iv_curve over the default range
iv_curve(mod, points, loaded, interp, raises) ==
  IvSweep(mod, Linspace(0, DefaultIMax(mod), points), loaded, interp, raises)

\* np.argmax: the first index of the maximum
ArgMax(xs) ==
  CHOOSE i \in 1 .. Len(xs) :
    /\ \A j \in 1 .. Len(xs) : xs[j] <= xs[i]
    /\ \A j \in 1 .. (i - 1) : xs[j] < xs[i]

\* PVModule.find_mpp after the sweep: the point at idx_mpp and its details
MppPoint(mod, iv_data, idx_mpp, loaded, interp, raises) ==
  [voltage |-> iv_data.voltages[idx_mpp],
   current |-> iv_data.currents[idx_mpp],
   power |-> iv_data.powers[idx_mpp],
   details |-> module_voltage_at_current(mod, iv_data.currents[idx_mpp],
                                         loaded, interp, raises),
   iv_data |-> iv_data]

\* find_mpp taking the argmax of the voltages
MppOfMaxVoltage(mod, iv_data, loaded, interp, raises) ==
  MppPoint(mod, iv_data, ArgMax(iv_data.voltages), loaded, interp, raises)

\* PVModule.find_mpp: idx_mpp = np.argmax(iv_data['powers'])
MppOf(mod, iv_data, loaded, interp, raises) ==
  MppPoint(mod, iv_data, ArgMax(iv_data.powers), loaded, interp, raises)

\* PVModule.find_mpp; iv_data is the curve it sampled
find_mpp(mod, fast, loaded, interp, raises) ==
  MppOf(mod, iv_curve(mod, IF fast THEN FastPoints ELSE FullPoints,
                      loaded, interp, raises),
        loaded, interp, raises)

\* analyze_hotspots skipping the strings whose bypass diode is active
HotspotsOfUnbypassed(mod, r, current) ==
  LET cells == MkSeq(Len(mod) * CellsPerString, LAMBDA k :
                 <<((k - 1) \div CellsPerString) + 1, ((k - 1) % CellsPerString) + 1>>)
      hot == SelectSeq(cells, LAMBDA c :
                 /\ ~r.bypass_states[c[1]]
                 /\ r.string_results[c[1]].cell_voltages[c[2]] < 0)
  IN  MkSeq(Len(hot), LAMBDA k :
        [string |-> hot[k][1] - 1,
         cell |-> hot[k][2] - 1,
         voltage |-> r.string_results[hot[k][1]].cell_voltages[hot[k][2]],
         power |-> -r.string_results[hot[k][1]].cell_voltages[hot[k][2]] * current,
         shading_factor |-> mod[hot[k][1]][hot[k][2]]])

\* PVModule.analyze_hotspots, the loops over result['string_results'] and their
\* cell_voltages: r is what module_voltage_at_current returned; string and cell
\* are the 0-based indices of enumerate
HotspotsOf(mod, r, current) ==
  LET cells == MkSeq(Len(mod) * CellsPerString, LAMBDA k :
                 <<((k - 1) \div CellsPerString) + 1, ((k - 1) % CellsPerString) + 1>>)
      hot == SelectSeq(cells, LAMBDA c :
                 r.string_results[c[1]].cell_voltages[c[2]] < 0)
  IN  MkSeq(Len(hot), LAMBDA k :
        [string |-> hot[k][1] - 1,
         cell |-> hot[k][2] - 1,
         voltage |-> r.string_results[hot[k][1]].cell_voltages[hot[k][2]],
         power |-> -r.string_results[hot[k][1]].cell_voltages[hot[k][2]] * current,
         shading_factor |-> mod[hot[k][1]][hot[k][2]]])

\* PVModule.analyze_hotspots, the returned dictionary
HotspotSummary(all_hotspots, r) ==
  [hotspots |-> all_hotspots,
   total_hotspot_power |-> SumSeq(MkSeq(Len(all_hotspots), LAMBDA k : all_hotspots[k].power)),
   num_hotspots |-> Len(all_hotspots),
   bypass_states |-> r.bypass_states]

HotspotAnalysis(mod, r, current) == HotspotSummary(HotspotsOf(mod, r, current), r)

\* PVModule.analyze_hotspots(current)
analyze_hotspots(mod, current, loaded, interp, raises) ==
  HotspotAnalysis(mod, module_voltage_at_current(mod, current, loaded, interp, raises),
                  current)

(* ---------------- the objects ---------------- *)
\* SolarCell.__init__ at 1000 W/m2, 25 C: the attributes the solvers read
SolarCell(sh) ==
  [irradiance |-> 1000, temperature |-> 25, shading_factor |-> ClipShading(sh),
   Iph |-> Photocurrent(sh), Is |-> SaturationCurrent(Photocurrent(sh))]

\* CellString.__init__: one cell per entry of the shading pattern
CellString(str) == [cells |-> MkSeq(Len(str), LAMBDA i : SolarCell(str[i]))]

\* PVModule.__init__: one CellString per entry of shading_config
PVModule(mod) ==
  [irradiance |-> 1000, temperature |-> 25,
   strings |-> MkSeq(Len(mod), LAMBDA s : CellString(mod[s]))]

\* the shading factors of the cells of a string object, and of a module object
ShadingsOf(string) == MkSeq(Len(string.cells), LAMBDA i : string.cells[i].shading_factor)
ShadingConfigOf(module) == MkSeq(Len(module.strings), LAMBDA s : ShadingsOf(module.strings[s]))

\* an evaluation method that leaves the temperature of its last sample on the module
AfterEvaluationStoringState(module) == [module EXCEPT !.temperature = 26]

\* an evaluation method that latches the first cell of the first string as shaded
AfterEvaluationLatching(module) ==
  [module EXCEPT !.strings[1].cells[1].shading_factor = 100]

\* the object when string_voltage_at_current, module_voltage_at_current, iv_curve,
\* find_mpp or analyze_hotspots returns: the methods bind locals only and assign
\* no attribute of self, of a string or of a cell
AfterEvaluation(module) == module

\* update_bypass_analysis: shading_config = {'string_0': {i: intensity for i in
\* range(num_cells)}, 'string_1': {}, 'string_2': {}} on the module of 3 x 36 cells
BypassTestConfig(num_cells, intensity) ==
  [s \in 1 .. num_strings |->
    [i \in 1 .. cells_per_string |-> IF s = 1 /\ i <= num_cells THEN intensity ELSE 0]]

\* update_bypass_analysis: module.module_voltage_at_current(current) of that module
update_bypass_analysis(num_cells, intensity, current, loaded, interp, raises) ==
  module_voltage_at_current(BypassTestConfig(num_cells, intensity), current,
                            loaded, interp, raises)

\* test_lut_performance.py: PVModule(1000, 25, shading_config) with string_0
\* shaded as given (cell index from 1) and nothing else
ScenarioModule(shading) ==
  [s \in 1 .. num_strings |->
    [i \in 1 .. cells_per_string |->
      IF s = 1 /\ i \in DOMAIN shading THEN shading[i] ELSE 0]]

\* test_lut_performance.py: voltage_diff and power_diff of the two MPPs
AccuracyOf(mpp_lut, mpp_orig) ==
  [voltage_lut |-> mpp_lut.voltage, voltage_orig |-> mpp_orig.voltage,
   power_lut |-> mpp_lut.power, power_orig |-> mpp_orig.power,
   voltage_diff |-> Abs(mpp_lut.voltage - mpp_orig.voltage),
   power_diff |-> Abs(mpp_lut.power - mpp_orig.power)]

(* ---------------- inputs of the calls ---------------- *)
\* the cells (shading factors, percent) of one string, and the strings of a module
Strings == [1 .. CellsPerString -> Shadings]
ShadedCells(mod) ==
  Cardinality({c \in (1 .. Len(mod)) \X (1 .. CellsPerString) : mod[c[1]][c[2]] > 0})
Modules == {mod \in [1 .. NumStrings -> Strings] : ShadedCells(mod) <= MaxShaded}

\* the voltages handed to string_current_at_voltage
StringVoltages == {-(Vbr * CellsPerString), 0}

\* the lut_data a caller can hold: generated now, or loaded from a cache
LutDatas ==
  {generate_lut} \cup {load_lut(f).lut_data : f \in {g \in CacheFiles : ~load_lut(g).raised}}

\* the targets of the round trip, in mA: those of debug_physics.py, and the ends
\* 0 and Iph_ref of the range
RoundTripTargets == {0, 1000, 3000, 5000, 7000, 9000, Iph_ref * 10}

\* the scenarios of test_lut_performance.py: no shading, cell 18 at 100 %, and
\* cells 10 and 18 at 50 % and 100 %
PerformanceScenarios == {<<>>, 19 :> 100, (11 :> 50) @@ (19 :> 100)}

\* arguments of SolarCell(...): shading factors (percent) inside and outside
\* [0, 1], irradiances and temperatures at the ends and inside the grid ranges
ShadingArgs == {-50, 0, 50, 100, 150}
IrradianceArgs == {0, 200, 1000}
TemperatureArgs == {-20, 25, 90}

\* voltages handed to cell.current: those of debug_physics.py (0 V, 0.3 V) and the
\* regime boundary -0.95 * Vbr with its neighbours one millivolt away
BoundaryVoltage == -((Vbr * 95) \div 100)
CurrentVoltages == {0, 300, BoundaryVoltage - 1, BoundaryVoltage, BoundaryVoltage + 1}

\* the sliders of the bypass page: shaded cells of string 1, their intensity
BypassTestCells == {0, 8, 15}
BypassTestIntensities == {50, 100}

\* the modules and currents of the repeated evaluations of one object
EvalModules == {mod \in Modules : ShadedCells(mod) <= 1}
EvalCurrents == {-3000, 650}

(* ---------------- state ---------------- *)
VARIABLES
  cache,             \* the file cache/cell_lut.npz
  lut_interpolator,  \* LUTSolarCell.lut_interpolator (class attribute)
  lut_loaded,        \* LUTSolarCell.lut_loaded (class attribute)
  result,            \* the call in hand: its arguments and what it returned
  lut_status,        \* app.lut_status
  tpc,               \* position of the background thread lut_init_thread
  tlocal,            \* locals of initialize_lut_system: lut_data, interpolator
  req,               \* a composition request in progress: its module and the cells done
  pv_module,         \* a PVModule object that is evaluated more than once
  first_query,       \* history: the first evaluation of pv_module and what it returned
  lutgen,            \* generate_lut in progress: its loop counter and callbacks so far
  solve              \* a voltage-for-current solve in progress: bracket and loop counter

vars == <<cache, lut_interpolator, lut_loaded, result, lut_status, tpc, tlocal, req,
          pv_module, first_query, lutgen, solve>>
evalVars == <<pv_module, first_query, lutgen, solve>>

Idle == [op |-> "idle"]
NoRequest == [pc |-> "idle"]
StatusInit == [initialized |-> FALSE, progress |-> 0, error |-> FALSE]
NoLocals == [lut_data |-> generate_lut, interpolator |-> NoInterpolator]
NoModule == [irradiance |-> 1000, temperature |-> 25, strings |-> <<>>]
NoQuery == [op |-> "none"]
NoGeneration == [pc |-> "off"]
NoSolve == [pc |-> "off", iteration |-> 0]

\* scripts and tests: one call after the other on one thread, the LUT published
\* by the caller of initialize_lut
Init ==
  /\ cache \in CacheFiles
  /\ lut_interpolator = NoInterpolator
  /\ lut_loaded = FALSE
  /\ result = Idle
  /\ lut_status = StatusInit
  /\ tpc = "off"
  /\ tlocal = NoLocals
  /\ req = NoRequest
  /\ pv_module = NoModule
  /\ first_query = NoQuery
  /\ lutgen = NoGeneration
  /\ solve = NoSolve

\* lut_data, interpolator = initialize_lut(path, force_regenerate)
InitializeLutCall(force) ==
  /\ result = Idle
  /\ LET r == initialize_lut(cache, force)
     IN  /\ cache' = r.file
         /\ result' = [op |-> "initialize_lut", force |-> force, before |-> cache,
                       after |-> r.file, ret |-> r]
  /\ UNCHANGED <<lut_interpolator, lut_loaded, lut_status, tpc, tlocal, req>>
  /\ UNCHANGED evalVars

\* LUTSolarCell.set_lut_interpolator(interpolator) with what initialize_lut returned
SetLutInterpolator ==
  /\ result.op = "initialize_lut"
  /\ ~result.ret.raised
  /\ lut_interpolator' = result.ret.interpolator
  /\ lut_loaded' = TRUE
  /\ result' = [op |-> "set_lut_interpolator"]
  /\ UNCHANGED <<cache, lut_status, tpc, tlocal, req>>
  /\ UNCHANGED evalVars

\* check_lut_validity(path)
CheckLutValidityCall ==
  /\ result = Idle
  /\ result' = [op |-> "check_lut_validity", file |-> cache,
                ret |-> check_lut_validity(cache)]
  /\ UNCHANGED <<cache, lut_interpolator, lut_loaded, lut_status, tpc, tlocal, req>>
  /\ UNCHANGED evalVars

\* the lookup can only raise where it is made
CanRaise(raises) == raises => (lut_loaded /\ lut_interpolator.built)

\* LUTSolarCell(shading_factor=sh).find_operating_point(current)
FindOperatingPointCall(sh, current, raises) ==
  /\ result = Idle
  /\ CanRaise(raises)
  /\ result' = [op |-> "find_operating_point", sh |-> sh, current |-> current,
                raises |-> raises,
                ret |-> LUTFindOperatingPoint(sh, current, lut_loaded,
                                              lut_interpolator, raises)]
  /\ UNCHANGED <<cache, lut_interpolator, lut_loaded, lut_status, tpc, tlocal, req>>
  /\ UNCHANGED evalVars

\* CellString(...).string_voltage_at_current(current)
StringVoltageAtCurrentCall(str, current, raises) ==
  /\ result = Idle
  /\ CanRaise(raises)
  /\ result' = [op |-> "string_voltage_at_current", str |-> str, current |-> current,
                raises |-> raises,
                ret |-> string_voltage_at_current(str, current, lut_loaded,
                                                  lut_interpolator, raises)]
  /\ UNCHANGED <<cache, lut_interpolator, lut_loaded, lut_status, tpc, tlocal, req>>
  /\ UNCHANGED evalVars

\* CellString(...).string_current_at_voltage(voltage, current_guess): fsolve ends
\* on x or raises
StringCurrentAtVoltageCall(str, voltage, guess, raises) ==
  /\ result = Idle
  /\ CanRaise(raises)
  /\ \E atGuess \in {SumSeq(CellVoltages(str, guess, lut_loaded, lut_interpolator,
                                         raises)) - voltage} :
       \E x \in ForcedCurrents \cup {guess}, raised \in BOOLEAN :
         /\ Fsolve(atGuess, guess, x, raised)
         /\ result' = [op |-> "string_current_at_voltage", str |-> str,
                       voltage |-> voltage,
                       guess |-> guess, raises |-> raises,
                       ret |-> string_current_at_voltage(str, x, raised, lut_loaded,
                                                         lut_interpolator, raises)]
  /\ UNCHANGED <<cache, lut_interpolator, lut_loaded, lut_status, tpc, tlocal, req>>
  /\ UNCHANGED evalVars

\* PVModule(...).module_voltage_at_current(current)
ModuleVoltageAtCurrentCall(mod, current, raises) ==
  /\ result = Idle
  /\ CanRaise(raises)
  /\ result' = [op |-> "module_voltage_at_current", mod |-> mod, current |-> current,
                raises |-> raises,
                ret |-> module_voltage_at_current(mod, current, lut_loaded,
                                                  lut_interpolator, raises)]
  /\ UNCHANGED <<cache, lut_interpolator, lut_loaded, lut_status, tpc, tlocal, req>>
  /\ UNCHANGED evalVars

\* PVModule(...).find_mpp(fast)
FindMppCall(mod, fast, raises) ==
  /\ result = Idle
  /\ CanRaise(raises)
  /\ result' = [op |-> "find_mpp", mod |-> mod, fast |-> fast, raises |-> raises,
                ret |-> find_mpp(mod, fast, lut_loaded, lut_interpolator, raises)]
  /\ UNCHANGED <<cache, lut_interpolator, lut_loaded, lut_status, tpc, tlocal, req>>
  /\ UNCHANGED evalVars

\* PVModule(...).analyze_hotspots(current)
AnalyzeHotspotsCall(mod, current, raises) ==
  /\ result = Idle
  /\ CanRaise(raises)
  /\ result' = [op |-> "analyze_hotspots", mod |-> mod, current |-> current,
                raises |-> raises,
                ret |-> analyze_hotspots(mod, current, lut_loaded, lut_interpolator,
                                         raises)]
  /\ UNCHANGED <<cache, lut_interpolator, lut_loaded, lut_status, tpc, tlocal, req>>
  /\ UNCHANGED evalVars

\* v = cell.find_operating_point(target); i_check = cell.current(v), for a target
\* within [0, Iph] of the cell
RoundTripCall(sh, target) ==
  /\ result = Idle
  /\ target <= Photocurrent(sh) * 10
  /\ result' = [op |-> "round_trip", sh |-> sh, target |-> target,
                ret |-> RoundTrip(sh, target)]
  /\ UNCHANGED <<cache, lut_interpolator, lut_loaded, lut_status, tpc, tlocal, req>>
  /\ UNCHANGED evalVars

\* one scenario of test_lut_performance.py, run after set_lut_interpolator:
\* find_mpp(fast=True) of the module with use_lut=True and with use_lut=False
LutPerformanceTest(shading) ==
  /\ result = Idle
  /\ lut_loaded
  /\ \E mpp_lut \in {find_mpp(ScenarioModule(shading), TRUE, lut_loaded,
                                lut_interpolator, FALSE)},
        mpp_orig \in {find_mpp(ScenarioModule(shading), TRUE, FALSE,
                                 NoInterpolator, FALSE)} :
       result' = [op |-> "lut_performance", shading |-> shading,
                  ret |-> AccuracyOf(mpp_lut, mpp_orig)]
  /\ UNCHANGED <<cache, lut_interpolator, lut_loaded, lut_status, tpc, tlocal, req>>
  /\ UNCHANGED evalVars

\* SolarCell(shading_factor=sh).find_operating_point(target): the exact solver
SolarCellFindOperatingPoint(sh, target) ==
  /\ result = Idle
  /\ result' = [op |-> "SolarCell.find_operating_point", sh |-> sh, current |-> target,
                bracketed |-> ~BracketFails(sh, target),
                raised |-> FALSE,
                ret |-> ExactOperatingPoint(sh, target)]
  /\ UNCHANGED <<cache, lut_interpolator, lut_loaded, lut_status, tpc, tlocal, req>>
  /\ UNCHANGED evalVars

\* SolarCell(shading_factor=sh).current(voltage)
CurrentCall(sh, voltage) ==
  /\ result = Idle
  /\ result' = [op |-> "current", sh |-> sh, voltage |-> voltage,
                ret |-> CellCurrent(voltage, Photocurrent(sh),
                                    SaturationCurrent(Photocurrent(sh)), HalfV)]
  /\ UNCHANGED <<cache, lut_interpolator, lut_loaded, lut_status, tpc, tlocal, req>>
  /\ UNCHANGED evalVars

\* cell = SolarCell(irradiance, temperature, shading_factor)
SolarCellInit(irradiance, temperature, shading_factor) ==
  /\ result = Idle
  /\ result' = [op |-> "SolarCell", irradiance |-> irradiance,
                temperature |-> temperature, shading_factor |-> shading_factor,
                cell |-> SolarCellAt(irradiance, temperature, shading_factor)]
  /\ UNCHANGED <<cache, lut_interpolator, lut_loaded, lut_status, tpc, tlocal, req>>
  /\ UNCHANGED evalVars

\* save_lut(lut_data, path)
SaveLutCall(lut_data) ==
  /\ result = Idle
  /\ cache' = save_lut(lut_data)
  /\ result' = [op |-> "save_lut", lut_data |-> lut_data, file |-> save_lut(lut_data)]
  /\ UNCHANGED <<lut_interpolator, lut_loaded, lut_status, tpc, tlocal, req>>
  /\ UNCHANGED evalVars

\* load_lut(path); valid is check_lut_validity(path) of the same file
LoadLutCall ==
  /\ result = Idle
  /\ cache.exists
  /\ result' = [op |-> "load_lut", file |-> cache, ret |-> load_lut(cache),
                valid |-> check_lut_validity(cache)]
  /\ UNCHANGED <<cache, lut_interpolator, lut_loaded, lut_status, tpc, tlocal, req>>
  /\ UNCHANGED evalVars

\* cell.hotspot_power(current) of a cell with shading factor sh
HotspotPowerCall(sh, current, raises) ==
  /\ result = Idle
  /\ CanRaise(raises)
  /\ result' = [op |-> "hotspot_power", sh |-> sh, current |-> current,
                raises |-> raises,
                ret |-> hotspot_power(sh, current, lut_loaded, lut_interpolator,
                                      raises)]
  /\ UNCHANGED <<cache, lut_interpolator, lut_loaded, lut_status, tpc, tlocal, req>>
  /\ UNCHANGED evalVars

\* the callback update_bypass_analysis(num_cells, intensity, current)
UpdateBypassAnalysis(num_cells, intensity, current, raises) ==
  /\ result = Idle
  /\ CanRaise(raises)
  /\ result' = [op |-> "update_bypass_analysis", num_cells |-> num_cells,
                intensity |-> intensity, current |-> current, raises |-> raises,
                ret |-> update_bypass_analysis(num_cells, intensity, current,
                                               lut_loaded, lut_interpolator, raises)]
  /\ UNCHANGED <<cache, lut_interpolator, lut_loaded, lut_status, tpc, tlocal, req>>
  /\ UNCHANGED evalVars

\* the caller takes the result; the next call can start
Return ==
  /\ result # Idle
  /\ result' = Idle
  /\ UNCHANGED <<cache, lut_interpolator, lut_loaded, lut_status, tpc, tlocal, req>>
  /\ UNCHANGED evalVars

Next ==
  \/ \E force \in BOOLEAN : InitializeLutCall(force)
  \/ SetLutInterpolator
  \/ CheckLutValidityCall
  \/ \E sh \in Shadings, current \in ForcedCurrents \cup AccuracyCurrents :
       \E raises \in BOOLEAN : FindOperatingPointCall(sh, current, raises)
  \/ \E str \in Strings, current \in ForcedCurrents, raises \in BOOLEAN :
       StringVoltageAtCurrentCall(str, current, raises)
  \/ \E str \in Strings, voltage \in StringVoltages :
       \E guess \in CurrentGuesses \cup {DefaultGuess(str[1])} :
         \E raises \in BOOLEAN :
           StringCurrentAtVoltageCall(str, voltage, guess, raises)
  \/ \E mod \in Modules, current \in ForcedCurrents, raises \in BOOLEAN :
       ModuleVoltageAtCurrentCall(mod, current, raises)
  \/ \E mod \in Modules, fast \in BOOLEAN, raises \in BOOLEAN :
       FindMppCall(mod, fast, raises)
  \/ \E mod \in Modules, current \in ForcedCurrents, raises \in BOOLEAN :
       AnalyzeHotspotsCall(mod, current, raises)
  \/ \E sh \in Shadings, target \in RoundTripTargets : RoundTripCall(sh, target)
  \/ \E sh \in Shadings, voltage \in CurrentVoltages : CurrentCall(sh, voltage)
  \/ \E sh \in Shadings, target \in FallbackTargets : SolarCellFindOperatingPoint(sh, target)
  \/ \E irradiance \in IrradianceArgs, temperature \in TemperatureArgs :
       \E shading_factor \in ShadingArgs :
         SolarCellInit(irradiance, temperature, shading_factor)
  \/ \E shading \in PerformanceScenarios : LutPerformanceTest(shading)
  \/ \E lut_data \in LutDatas : SaveLutCall(lut_data)
  \/ LoadLutCall
  \/ \E sh \in Shadings, current \in ScenarioCurrents \cup {-3000}, raises \in BOOLEAN :
       HotspotPowerCall(sh, current, raises)
  \/ \E num_cells \in BypassTestCells, intensity \in BypassTestIntensities :
       \E current \in ScenarioCurrents, raises \in BOOLEAN :
         UpdateBypassAnalysis(num_cells, intensity, current, raises)
  \/ Return

Spec == Init /\ [][Next]_vars

(* ---------------- the app: LUT start-up on a background thread ---------------- *)
\* the currents of the requests served while the thread runs
RequestCurrents == {0, 650}

\* app.py at import: lut_status initialised, lut_init_thread started
InitConc ==
  /\ cache \in CacheFiles
  /\ lut_interpolator = NoInterpolator
  /\ lut_loaded = FALSE
  /\ result = Idle
  /\ lut_status = StatusInit
  /\ tpc = "start"
  /\ tlocal = NoLocals
  /\ req = NoRequest
  /\ pv_module = NoModule
  /\ first_query = NoQuery
  /\ lutgen = NoGeneration
  /\ solve = NoSolve

\* initialize_lut_system: os.path.exists(LUT_CACHE_FILE) and check_lut_validity(...)
T_Check ==
  /\ tpc = "start"
  /\ IF cache.exists /\ check_lut_validity(cache)
     THEN /\ tpc' = "load"
          /\ lut_status' = [lut_status EXCEPT !.progress = 50]
     ELSE /\ tpc' = "generate"
          /\ UNCHANGED lut_status
  /\ UNCHANGED <<cache, lut_interpolator, lut_loaded, result, tlocal, req>>
  /\ UNCHANGED evalVars

\* initialize_lut with the exception handled around the call alone: the error is
\* recorded and the thread goes on to publish
T_LoadErrorAndContinue ==
  /\ tpc = "load"
  /\ LET r == initialize_lut(cache, FALSE)
     IN  /\ tpc' = "set_interpolator"
         /\ tlocal' = [lut_data |-> r.lut_data, interpolator |-> r.interpolator]
         /\ lut_status' = [lut_status EXCEPT !.error = r.raised]
         /\ UNCHANGED cache
  /\ UNCHANGED <<lut_interpolator, lut_loaded, result, req>>
  /\ UNCHANGED evalVars

\* lut_data, interpolator = initialize_lut(LUT_CACHE_FILE); an exception ends the
\* thread in the except branch
T_Load ==
  /\ tpc = "load"
  /\ LET r == initialize_lut(cache, FALSE)
     IN  IF r.raised
         THEN /\ tpc' = "failed"
              /\ lut_status' = [lut_status EXCEPT !.error = TRUE]
              /\ UNCHANGED <<cache, tlocal>>
         ELSE /\ tpc' = "set_interpolator"
              /\ tlocal' = [lut_data |-> r.lut_data, interpolator |-> r.interpolator]
              /\ cache' = r.file
              /\ UNCHANGED lut_status
  /\ UNCHANGED <<lut_interpolator, lut_loaded, result, req>>
  /\ UNCHANGED evalVars

\* generate_lut taken for the end of startup: 'initialized' set with the last callback
T_GenerateMarksInitialized ==
  /\ tpc = "generate"
  /\ tlocal' = [tlocal EXCEPT !.lut_data = generate_lut]
  /\ lut_status' = [lut_status EXCEPT !.progress = 100, !.initialized = TRUE]
  /\ tpc' = "save"
  /\ UNCHANGED <<cache, lut_interpolator, lut_loaded, result, req>>
  /\ UNCHANGED evalVars

\* lut_data = generate_lut(progress_callback): the last callback reports 100
T_Generate ==
  /\ tpc = "generate"
  /\ tlocal' = [tlocal EXCEPT !.lut_data = generate_lut]
  /\ lut_status' = [lut_status EXCEPT !.progress = 100]
  /\ tpc' = "save"
  /\ UNCHANGED <<cache, lut_interpolator, lut_loaded, result, req>>
  /\ UNCHANGED evalVars

\* lut_status['progress'] = 95; save_lut(lut_data, LUT_CACHE_FILE) opens the file
\* for writing: np.savez_compressed writes the archive member by member into it
T_Save ==
  /\ tpc = "save"
  /\ lut_status' = [lut_status EXCEPT !.progress = 95]
  /\ cache' = [save_lut(tlocal.lut_data) EXCEPT !.readable = FALSE]
  /\ tpc' = "saving"
  /\ UNCHANGED <<lut_interpolator, lut_loaded, result, tlocal, req>>
  /\ UNCHANGED evalVars

\* save_lut returns: the archive is complete
T_SaveDone ==
  /\ tpc = "saving"
  /\ cache' = save_lut(tlocal.lut_data)
  /\ tpc' = "create"
  /\ UNCHANGED <<lut_interpolator, lut_loaded, result, lut_status, tlocal, req>>
  /\ UNCHANGED evalVars

\* save_lut raises (OSError while writing): the except branch records the error
T_SaveRaises ==
  /\ tpc = "saving"
  /\ lut_status' = [lut_status EXCEPT !.error = TRUE]
  /\ tpc' = "failed"
  /\ UNCHANGED <<cache, lut_interpolator, lut_loaded, result, tlocal, req>>
  /\ UNCHANGED evalVars

\* interpolator = create_interpolator(lut_data)
T_Create ==
  /\ tpc = "create"
  /\ tlocal' = [tlocal EXCEPT !.interpolator = create_interpolator(tlocal.lut_data)]
  /\ tpc' = "set_interpolator"
  /\ UNCHANGED <<cache, lut_interpolator, lut_loaded, result, lut_status, req>>
  /\ UNCHANGED evalVars

\* set_lut_interpolator raising the flag in its first statement
T_SetInterpolatorFlagFirst ==
  /\ tpc = "set_interpolator"
  /\ lut_loaded' = TRUE
  /\ tpc' = "set_loaded"
  /\ UNCHANGED <<cache, lut_interpolator, result, lut_status, tlocal, req>>
  /\ UNCHANGED evalVars

\* set_lut_interpolator, first statement: cls.lut_interpolator = interpolator
T_SetInterpolator ==
  /\ tpc = "set_interpolator"
  /\ lut_interpolator' = tlocal.interpolator
  /\ tpc' = "set_loaded"
  /\ UNCHANGED <<cache, lut_loaded, result, lut_status, tlocal, req>>
  /\ UNCHANGED evalVars

\* set_lut_interpolator, second statement: cls.lut_loaded = True
T_SetLoaded ==
  /\ tpc = "set_loaded"
  /\ lut_loaded' = TRUE
  /\ tpc' = "status"
  /\ UNCHANGED <<cache, lut_interpolator, result, lut_status, tlocal, req>>
  /\ UNCHANGED evalVars

\* lut_status['progress'] = 100; lut_status['initialized'] = True
T_Finish ==
  /\ tpc = "status"
  /\ lut_status' = [lut_status EXCEPT !.progress = 100, !.initialized = TRUE]
  /\ tpc' = "done"
  /\ UNCHANGED <<cache, lut_interpolator, lut_loaded, result, tlocal, req>>
  /\ UNCHANGED evalVars

\* a callback enters PVModule(...).module_voltage_at_current(current)
R_Begin(mod, current) ==
  /\ req.pc = "idle"
  /\ req' = [pc |-> "cells", mod |-> mod, current |-> current, cells |-> <<>>]
  /\ result' = Idle
  /\ UNCHANGED <<cache, lut_interpolator, lut_loaded, lut_status, tpc, tlocal>>
  /\ UNCHANGED evalVars

\* the next cell.find_operating_point(current) of the loops over strings and
\* cells: it reads the class attributes as they are now
R_Cell ==
  /\ req.pc = "cells"
  /\ Len(req.cells) < NumStrings * CellsPerString
  /\ req' = [req EXCEPT !.cells =
       Append(@, LUTFindOperatingPoint(
                   req.mod[(Len(req.cells) \div CellsPerString) + 1]
                          [(Len(req.cells) % CellsPerString) + 1],
                   req.current, lut_loaded, lut_interpolator, FALSE))]
  /\ UNCHANGED <<cache, lut_interpolator, lut_loaded, result, lut_status, tpc, tlocal>>
  /\ UNCHANGED evalVars

\* the cell voltages of string s among the cells of the request
RequestString(cells, s) ==
  MkSeq(CellsPerString, LAMBDA i : cells[(s - 1) * CellsPerString + i].v)

\* module_voltage_at_current returns
R_Return ==
  /\ req.pc = "cells"
  /\ Len(req.cells) = NumStrings * CellsPerString
  /\ result' = [op |-> "module_voltage_at_current", mod |-> req.mod,
                current |-> req.current,
                paths |-> MkSeq(Len(req.cells), LAMBDA i : req.cells[i].path),
                ret |-> ModuleResult(
                          MkSeq(NumStrings, LAMBDA s :
                            StringResult(RequestString(req.cells, s), req.current)),
                          req.current)]
  /\ req' = NoRequest
  /\ UNCHANGED <<cache, lut_interpolator, lut_loaded, lut_status, tpc, tlocal>>
  /\ UNCHANGED evalVars

RequestStep == R_Cell \/ R_Return

\* One LUTSolarCell.find_operating_point(current), attribute read by attribute read.
\* a callback enters the lookup of a cell with shading factor sh
L_Begin(sh, current) ==
  /\ req.pc = "idle"
  /\ req' = [pc |-> "read_loaded", sh |-> sh, current |-> current]
  /\ result' = Idle
  /\ UNCHANGED <<cache, lut_interpolator, lut_loaded, lut_status, tpc, tlocal>>
  /\ UNCHANGED evalVars

\* 'not self.lut_loaded': the flag is read
L_ReadLoaded ==
  /\ req.pc = "read_loaded"
  /\ req' = [pc |-> "read_interpolator", sh |-> req.sh, current |-> req.current,
             loaded |-> lut_loaded]
  /\ UNCHANGED <<cache, lut_interpolator, lut_loaded, result, lut_status, tpc, tlocal>>
  /\ UNCHANGED evalVars

\* 'self.lut_interpolator is None', and the attribute as the call reads it; with
\* the flag read as False the attribute is not read
L_ReadInterpolator ==
  /\ req.pc = "read_interpolator"
  /\ req' = [pc |-> "call", sh |-> req.sh, current |-> req.current,
             loaded |-> req.loaded,
             interp |-> IF req.loaded THEN lut_interpolator ELSE NoInterpolator]
  /\ UNCHANGED <<cache, lut_interpolator, lut_loaded, result, lut_status, tpc, tlocal>>
  /\ UNCHANGED evalVars

\* the interpolator call or super().find_operating_point, and the return
L_Return ==
  /\ req.pc = "call"
  /\ result' = [op |-> "lookup", sh |-> req.sh, current |-> req.current,
                loaded |-> req.loaded, interp |-> req.interp,
                ret |-> LUTFindOperatingPoint(req.sh, req.current, req.loaded,
                                              req.interp, FALSE)]
  /\ req' = NoRequest
  /\ UNCHANGED <<cache, lut_interpolator, lut_loaded, lut_status, tpc, tlocal>>
  /\ UNCHANGED evalVars

\* a callback enters PVModule(...).find_mpp(fast=True)
M_Begin(mod) ==
  /\ req.pc = "idle"
  /\ req' = [pc |-> "mpp_sweep", mod |-> mod]
  /\ result' = Idle
  /\ UNCHANGED <<cache, lut_interpolator, lut_loaded, lut_status, tpc, tlocal>>
  /\ UNCHANGED evalVars

\* iv_data = self.iv_curve(points=30), its lookups reading the class attributes as
\* they are during the sweep
M_Sweep ==
  /\ req.pc = "mpp_sweep"
  /\ \E iv_data \in {iv_curve(req.mod, FastPoints, lut_loaded, lut_interpolator, FALSE)} :
       req' = [pc |-> "mpp_details", mod |-> req.mod, iv_data |-> iv_data,
               sweep_loaded |-> lut_loaded]
  /\ UNCHANGED <<cache, lut_interpolator, lut_loaded, result, lut_status, tpc, tlocal>>
  /\ UNCHANGED evalVars

\* idx_mpp = np.argmax(...); mpp_details = self.module_voltage_at_current(mpp_current),
\* its lookups reading the class attributes as they are now; return
M_Details ==
  /\ req.pc = "mpp_details"
  /\ \E ret \in {MppOf(req.mod, req.iv_data, lut_loaded, lut_interpolator, FALSE)} :
       result' = [op |-> "find_mpp", mod |-> req.mod, fast |-> TRUE,
                  sweep_loaded |-> req.sweep_loaded, details_loaded |-> lut_loaded,
                  ret |-> [voltage |-> ret.voltage, current |-> ret.current,
                           power |-> ret.power, details |-> ret.details]]
  /\ req' = NoRequest
  /\ UNCHANGED <<cache, lut_interpolator, lut_loaded, lut_status, tpc, tlocal>>
  /\ UNCHANGED evalVars

\* GET /api/lut, or the callback export_lut_to_client
ExportLut(endpoint) ==
  /\ req.pc = "idle"
  /\ result' = [op |-> "export", endpoint |-> endpoint, file |-> cache, tpc |-> tpc,
                ret |-> export_lut_to_client(lut_status.initialized, cache)]
  /\ UNCHANGED <<cache, lut_interpolator, lut_loaded, lut_status, tpc, tlocal, req>>
  /\ UNCHANGED evalVars

\* GET /api/lut, at any moment of the startup
ApiGetLut ==
  /\ req.pc = "idle"
  /\ result' = [op |-> "api_get_lut", file |-> cache, tpc |-> tpc,
                initialized |-> lut_status.initialized,
                ret |-> api_get_lut(lut_status.initialized, cache)]
  /\ UNCHANGED <<cache, lut_interpolator, lut_loaded, lut_status, tpc, tlocal, req>>
  /\ UNCHANGED evalVars

\* after startup the cache file is deleted or damaged from outside the app (the
\* app itself never writes it again)
CacheFileLost(file) ==
  /\ tpc = "done"
  /\ req.pc = "idle"
  /\ cache \notin {NoFile, GarbageFile}
  /\ cache' = file
  /\ result' = Idle
  /\ UNCHANGED <<lut_interpolator, lut_loaded, lut_status, tpc, tlocal, req>>
  /\ UNCHANGED evalVars

NextConc ==
  \/ T_Check
  \/ T_Load
  \/ T_Generate
  \/ T_Save
  \/ T_SaveDone
  \/ T_SaveRaises
  \/ T_Create
  \/ T_SetInterpolator
  \/ T_SetLoaded
  \/ T_Finish
  \/ \E mod \in Modules, current \in RequestCurrents : R_Begin(mod, current)
  \/ R_Cell
  \/ R_Return
  \/ \E sh \in Shadings, current \in RequestCurrents : L_Begin(sh, current)
  \/ \E mod \in Modules : M_Begin(mod)
  \/ M_Sweep
  \/ M_Details
  \/ L_ReadLoaded
  \/ L_ReadInterpolator
  \/ L_Return
  \/ \E endpoint \in {"api_get_lut", "export_lut_to_client"} : ExportLut(endpoint)
  \/ ApiGetLut
  \/ \E file \in {NoFile, GarbageFile} : CacheFileLost(file)

SpecConc == InitConc /\ [][NextConc]_vars

(* ---------------- one module object evaluated again and again ---------------- *)
\* a callback or script holds one PVModule and queries it; the LUT may be
\* published in between
InitEval ==
  /\ cache = NoFile
  /\ lut_interpolator = NoInterpolator
  /\ lut_loaded = FALSE
  /\ result = Idle
  /\ lut_status = StatusInit
  /\ tpc = "off"
  /\ tlocal = NoLocals
  /\ req = NoRequest
  /\ pv_module \in {PVModule(mod) : mod \in EvalModules}
  /\ first_query = NoQuery
  /\ lutgen = NoGeneration
  /\ solve = NoSolve

\* an evaluation method returns ret: the caller holds the result, the object is
\* what the method left of it; the history keeps the first evaluation and whether
\* an evaluation other than it has activated a bypass diode since
Evaluated(op, arg, ret, activated) ==
  /\ result' = [op |-> op, arg |-> arg, ret |-> ret,
                loaded |-> lut_loaded, interpolator |-> lut_interpolator]
  /\ pv_module' = AfterEvaluation(pv_module)
  /\ first_query' =
       IF first_query = NoQuery
       THEN [op |-> op, arg |-> arg, ret |-> ret,
             loaded |-> lut_loaded, interpolator |-> lut_interpolator,
             module |-> pv_module, bypass_since |-> FALSE]
       ELSE [first_query EXCEPT !.bypass_since =
               @ \/ (activated /\ <<op, arg>> # <<first_query.op, first_query.arg>>)]
  /\ UNCHANGED <<cache, lut_interpolator, lut_loaded, lut_status, tpc, tlocal, req, lutgen, solve>>

\* pv_module.strings[s].string_voltage_at_current(current)
EvalStringVoltageAtCurrent(s, current) ==
  \E ret \in {string_voltage_at_current(ShadingsOf(pv_module.strings[s]), current,
                                        lut_loaded, lut_interpolator, FALSE)} :
    Evaluated("string_voltage_at_current", <<s, current>>, ret, ret.bypass_active)

\* pv_module.module_voltage_at_current(current)
EvalModuleVoltageAtCurrent(current) ==
  \E ret \in {module_voltage_at_current(ShadingConfigOf(pv_module), current,
                                        lut_loaded, lut_interpolator, FALSE)} :
    Evaluated("module_voltage_at_current", <<current>>, ret, ret.num_bypassed_strings > 0)

\* pv_module.iv_curve(points=points)
EvalIvCurve(points) ==
  \E ret \in {iv_curve(ShadingConfigOf(pv_module), points,
                       lut_loaded, lut_interpolator, FALSE)} :
    Evaluated("iv_curve", <<points>>, ret, FALSE)

\* pv_module.find_mpp(fast)
EvalFindMpp(fast) ==
  \E ret \in {find_mpp(ShadingConfigOf(pv_module), fast,
                       lut_loaded, lut_interpolator, FALSE)} :
    Evaluated("find_mpp", <<fast>>, ret, FALSE)

\* pv_module.analyze_hotspots(current)
EvalAnalyzeHotspots(current) ==
  \E ret \in {analyze_hotspots(ShadingConfigOf(pv_module), current,
                               lut_loaded, lut_interpolator, FALSE)} :
    Evaluated("analyze_hotspots", <<current>>, ret,
              \E s \in 1 .. Len(ret.bypass_states) : ret.bypass_states[s])

\* LUTSolarCell.set_lut_interpolator(create_interpolator(generate_lut()))
PublishLut ==
  /\ ~lut_loaded
  /\ lut_interpolator' = create_interpolator(generate_lut)
  /\ lut_loaded' = TRUE
  /\ UNCHANGED <<cache, result, lut_status, tpc, tlocal, req, pv_module, first_query, lutgen, solve>>

NextEval ==
  \/ \E s \in 1 .. NumStrings, current \in EvalCurrents :
       EvalStringVoltageAtCurrent(s, current)
  \/ \E current \in EvalCurrents : EvalModuleVoltageAtCurrent(current)
  \/ \E points \in {FastPoints} : EvalIvCurve(points)
  \/ \E fast \in {TRUE} : EvalFindMpp(fast)
  \/ \E current \in EvalCurrents : EvalAnalyzeHotspots(current)
  \/ PublishLut

SpecEval == InitEval /\ [][NextEval]_vars

(* ---------------- generate_lut(progress_callback), step by step ---------------- *)
InitGen ==
  /\ cache = NoFile
  /\ lut_interpolator = NoInterpolator
  /\ lut_loaded = FALSE
  /\ result = Idle
  /\ lut_status = StatusInit
  /\ tpc = "off"
  /\ tlocal = NoLocals
  /\ req = NoRequest
  /\ pv_module = NoModule
  /\ first_query = NoQuery
  /\ lutgen = NoGeneration
  /\ solve = NoSolve

genFrame == <<cache, lut_interpolator, lut_loaded, result, lut_status, tpc, tlocal, req,
              pv_module, first_query, solve>>

\* generate_lut is entered, with or without a progress_callback: iteration = 0
G_Start(callback) ==
  /\ lutgen.pc = "off"
  /\ lutgen' = [pc |-> "loop", callback |-> callback, iteration |-> 0,
                computed |-> 0, reported |-> <<>>]
  /\ UNCHANGED genFrame

\* one pass of the innermost-but-one loop: the voltages of one (irradiance,
\* temperature, shading) node for every current, iteration += 1, and the callback
\* on every tenth iteration
G_Iterate ==
  /\ lutgen.pc = "loop"
  /\ lutgen.iteration < total_iterations(Grids)
  /\ LET iteration == lutgen.iteration + 1
         computed == lutgen.computed + Grids.current.num
     IN  lutgen' = [lutgen EXCEPT
           !.iteration = iteration,
           !.computed = computed,
           !.reported =
              IF lutgen.callback /\ iteration % 10 = 0
              THEN Append(@, [percent |->
                                ProgressPercent(iteration, total_iterations(Grids)),
                              computed |-> computed])
              ELSE @]
  /\ UNCHANGED genFrame

\* after the loops: progress_callback(100, "LUT generation complete!")
G_Finish ==
  /\ lutgen.pc = "loop"
  /\ lutgen.iteration = total_iterations(Grids)
  /\ lutgen' = [lutgen EXCEPT
        !.pc = "done",
        !.reported = IF lutgen.callback
                     THEN Append(@, [percent |-> 100, computed |-> lutgen.computed])
                     ELSE @]
  /\ UNCHANGED genFrame

NextGen ==
  \/ \E callback \in BOOLEAN : G_Start(callback)
  \/ G_Iterate
  \/ G_Finish

SpecGen == InitGen /\ [][NextGen]_vars

(* ---------------- one voltage-for-current solve, step by step ---------------- *)
\* Voltages in 0.1 mV and currents in mA, as in CurrentX.
InitSolve ==
  /\ cache = NoFile
  /\ lut_interpolator = NoInterpolator
  /\ lut_loaded = FALSE
  /\ result = Idle
  /\ lut_status = StatusInit
  /\ tpc = "off"
  /\ tlocal = NoLocals
  /\ req = NoRequest
  /\ pv_module = NoModule
  /\ first_query = NoQuery
  /\ lutgen = NoGeneration
  /\ solve = NoSolve

solveFrame == <<cache, lut_interpolator, lut_loaded, result, lut_status, tpc, tlocal, req,
                pv_module, first_query, lutgen>>

\* target currents of a solve, mA: negative, zero, forward, Iph, above Iph
SolveTargets == {-30000, 0, 5000, Iph_ref * 10, GridMaxCurrent * 10}

\* for _ in range(n): the loop has a next pass
RangeHasNextUnbounded(iteration, n) == TRUE
RangeHasNext(iteration, n) == iteration < n

\* _find_voltage_for_current_jit: the bracket [V_min, V_max] of a target
BisectionBracket(Iph, target) ==
  IF target >= 0 /\ target * 100 <= Iph * 101
  THEN [V_min |-> 0, V_max |-> Min(Quot(LnV(Iph, Iph) * 10 * 12, 10), VmaxCap)]
  ELSE [V_min |-> -(Vbr * 10), V_max |-> 0]

\* _find_voltage_for_current_jit is entered.  With Iph = Is = 0 and target 0 the
\* forward branch divides by Is: the call ends in ZeroDivisionError.
S_Start(sh, target) ==
  /\ solve.pc = "off"
  /\ LET Iph == Photocurrent(sh) * 10
         br == BisectionBracket(Iph, target)
     IN  IF Iph = 0 /\ target = 0
         THEN solve' = [pc |-> "raised", solver |-> "bisection", sh |-> sh,
                        target |-> target, iteration |-> 0]
         ELSE solve' = [pc |-> "loop", solver |-> "bisection", sh |-> sh,
                        target |-> target, iteration |-> 0,
                        V_min |-> br.V_min, V_max |-> br.V_max, V_mid |-> 0]
  /\ UNCHANGED solveFrame

\* one pass of the loop: V_mid, I_mid by _calculate_single_current_jit (six
\* fixed-point iterations), return when |error| < 1e-4 A, else one end moves
S_Bisect ==
  /\ solve.pc = "loop"
  /\ RangeHasNext(solve.iteration, BisectIter)
  /\ LET V_mid == (solve.V_min + solve.V_max) \div 2
         error == CurrentX(V_mid, Photocurrent(solve.sh) * 10) - solve.target
     IN  solve' = [solve EXCEPT
           !.iteration = @ + 1,
           !.V_mid = V_mid,
           !.pc = IF error = 0 THEN "done" ELSE "loop",
           !.V_max = IF error > 0 THEN V_mid ELSE @,
           !.V_min = IF error = 0 \/ error > 0 THEN @ ELSE V_mid]
  /\ UNCHANGED solveFrame

\* the loop is exhausted: return V_mid
S_Exhausted ==
  /\ solve.pc = "loop"
  /\ ~RangeHasNext(solve.iteration, BisectIter)
  /\ solve' = [solve EXCEPT !.pc = "done"]
  /\ UNCHANGED solveFrame

\* SolarCell.find_operating_point: get_Voc (three refinements), the two brentq
\* calls and the except branches, none of which loops
S_FindOperatingPoint(sh, target) ==
  /\ solve.pc = "off"
  /\ solve' = [pc |-> "done", solver |-> "brentq", sh |-> sh, target |-> target,
               iteration |-> 0, fallback |-> BracketFails(sh, target \div 10),
               V_mid |-> ExactOperatingPoint(sh, target \div 10) * 10]
  /\ UNCHANGED solveFrame

\* the caller takes the value (or the exception)
S_Return ==
  /\ solve.pc \in {"done", "raised"}
  /\ solve' = NoSolve
  /\ UNCHANGED solveFrame

NextSolve ==
  \/ \E sh \in Shadings, target \in SolveTargets : S_Start(sh, target)
  \/ S_Bisect
  \/ S_Exhausted
  \/ \E sh \in Shadings, target \in SolveTargets : S_FindOperatingPoint(sh, target)
  \/ S_Return

SpecSolve == InitSolve /\ [][NextSolve]_vars

(* ---------------- properties ---------------- *)
\* the voltage LUTSolarCell.find_operating_point gives a cell of shading sh in this state
CellVoltageNow(sh, current, raises) ==
  IF lut_loaded /\ lut_interpolator.built /\ ~raises
  THEN Interpolate(lut_interpolator, sh, current)
  ELSE ExactTable[sh][current]

\* C1: string_voltage_at_current reports bypass_active exactly when the sum of the
\* cell voltages (raw_string_voltage) is strictly below -Vf; the returned voltage
\* is -Vf when the bypass is active and the raw sum when it is not.
C1_BypassClamp ==
  result.op = "string_voltage_at_current" =>
    /\ result.ret.bypass_active <=> (result.ret.raw_string_voltage < -Vf)
    /\ result.ret.bypass_active <=> (SumSeq(result.ret.cell_voltages) < -Vf)
    /\ result.ret.bypass_active => result.ret.voltage = -Vf
    /\ ~result.ret.bypass_active => result.ret.voltage = result.ret.raw_string_voltage

\* a string call whose cells add up below -Vf and whose result is clamped
C1_Witness ==
  /\ result.op = "string_voltage_at_current"
  /\ result.ret.raw_string_voltage < -Vf
  /\ result.ret.bypass_active
  /\ result.ret.voltage = -Vf

\* C2: raw_string_voltage is the sum of the entries of cell_voltages, one entry per
\* cell in cell order, each the voltage of that cell at the current, whether or not
\* the bypass is active.
C2_SeriesSum ==
  result.op = "string_voltage_at_current" =>
    /\ Len(result.ret.cell_voltages) = Len(result.str)
    /\ \A i \in 1 .. Len(result.str) :
         result.ret.cell_voltages[i] =
           CellVoltageNow(result.str[i], result.current, result.raises)
    /\ result.ret.raw_string_voltage = SumSeq(result.ret.cell_voltages)

\* a bypassed string whose cells have different voltages
C2_Witness ==
  /\ result.op = "string_voltage_at_current"
  /\ result.ret.bypass_active
  /\ result.ret.voltage # result.ret.raw_string_voltage
  /\ \E i, j \in 1 .. Len(result.str) :
       result.ret.cell_voltages[i] < result.ret.cell_voltages[j]

\* C4: module_voltage_at_current returns the sum of the strings' post-clamp
\* voltages at the shared current, total_power = voltage x current, bypass_states
\* in string order and num_bypassed_strings = the number of true entries.
C4_ModuleSum ==
  result.op = "module_voltage_at_current" =>
    /\ Len(result.ret.string_results) = Len(result.mod)
    /\ Len(result.ret.bypass_states) = Len(result.mod)
    /\ \A s \in 1 .. Len(result.mod) :
         /\ \A i \in 1 .. Len(result.mod[s]) :
              result.ret.string_results[s].cell_voltages[i] =
                CellVoltageNow(result.mod[s][i], result.current, result.raises)
         /\ result.ret.string_results[s].voltage =
              (IF SumSeq(result.ret.string_results[s].cell_voltages) < -Vf
               THEN -Vf ELSE SumSeq(result.ret.string_results[s].cell_voltages))
         /\ result.ret.bypass_states[s] = result.ret.string_results[s].bypass_active
    /\ result.ret.voltage =
         SumSeq([s \in 1 .. Len(result.mod) |-> result.ret.string_results[s].voltage])
    /\ result.ret.total_power = result.ret.voltage * result.current
    /\ result.ret.num_bypassed_strings =
         Cardinality({s \in 1 .. Len(result.mod) : result.ret.bypass_states[s]})

\* a module with one string bypassed and another not, delivering non-zero power
C4_Witness ==
  /\ result.op = "module_voltage_at_current"
  /\ result.ret.num_bypassed_strings >= 1
  /\ \E s \in 1 .. Len(result.mod) : ~result.ret.bypass_states[s]
  /\ result.ret.total_power # 0

\* C3: the threshold is classified the same way by string_voltage_at_current and
\* string_current_at_voltage (bypassed exactly when the raw voltage is strictly
\* below -Vf, a raw voltage of exactly -Vf reported as not bypassed with voltage
\* -Vf), and no result exposes a string voltage below -Vf.
C3_ThresholdExclusive ==
  /\ result.op = "string_voltage_at_current" =>
       /\ result.ret.bypass_active <=> (result.ret.raw_string_voltage < -Vf)
       /\ result.ret.raw_string_voltage = -Vf =>
            (~result.ret.bypass_active /\ result.ret.voltage = -Vf)
       /\ result.ret.voltage >= -Vf
  /\ result.op = "string_current_at_voltage" =>
       /\ result.ret.bypass_active <=> (SumSeq(result.ret.cell_voltages) < -Vf)
       /\ SumSeq(result.ret.cell_voltages) = -Vf =>
            (~result.ret.bypass_active /\ result.ret.string_voltage = -Vf)
       /\ result.ret.string_voltage >= -Vf

\* C5: LUTSolarCell.find_operating_point returns the interpolator's value when an
\* interpolator is published and the lookup succeeds, the exact solver's value
\* when none is published or the lookup raises, and never lets the exception out.
C5_LutOrExact ==
  result.op = "find_operating_point" =>
    /\ ~result.ret.exc
    /\ (lut_loaded /\ lut_interpolator.built /\ ~result.raises) =>
         result.ret.v = Interpolate(lut_interpolator, result.sh, result.current)
    /\ (~lut_loaded \/ ~lut_interpolator.built \/ result.raises) =>
         result.ret.v = ExactOperatingPoint(result.sh, result.current)

\* a lookup that raised with an interpolator published, where the exact value
\* returned differs from what the grid holds
C5_Witness ==
  /\ result.op = "find_operating_point"
  /\ lut_loaded /\ lut_interpolator.built /\ result.raises
  /\ result.ret.v = ExactOperatingPoint(result.sh, result.current)
  /\ result.ret.v # Interpolate(lut_interpolator, result.sh, result.current)

\* C6: check_lut_validity is true only for a file that exists, is readable and
\* stores the hash of the current parameters; a cache written under other values
\* of the constants the grid is generated from is reported invalid and is never
\* loaded by initialize_lut.
C6_StaleCacheRejected ==
  /\ result.op = "check_lut_validity" /\ result.ret =>
       /\ result.file.exists
       /\ result.file.readable
       /\ result.file.cell_params_hash = get_cell_params_hash(CurrentParams)
       /\ result.file.gen = CurrentParams
  /\ result.op = "initialize_lut" /\ result.ret.loaded =>
       result.before.gen = CurrentParams

\* C7: initialize_lut never fails: a missing, stale, unreadable or corrupt cache
\* is regenerated and saved, the result is a usable (lut_data, interpolator), the
\* file is valid afterwards, and only a present and valid cache is loaded.
C7_InitializeNeverFails ==
  result.op = "initialize_lut" =>
    /\ ~result.ret.raised
    /\ result.ret.interpolator.built
    /\ check_lut_validity(result.after)
    /\ ~load_lut(result.after).raised
    /\ result.ret.loaded =>
         (~result.force /\ result.before.exists /\ check_lut_validity(result.before))
    /\ (~result.before.exists \/ ~result.before.readable \/ ~result.before.arrays_ok
          \/ result.before.cell_params_hash # get_cell_params_hash(CurrentParams)) =>
         (~result.ret.loaded /\ result.after = save_lut(generate_lut))

\* C9: the upper end of the default current range of iv_curve never exceeds the
\* minimum short-circuit current among the strings.
C9_RangeWithinIsc ==
  result.op = "find_mpp" =>
    result.ret.iv_data.currents[Len(result.ret.iv_data.currents)]
      <= MinOf({StringIsc(result.mod[s]) : s \in 1 .. Len(result.mod)})

\* the module voltage at a current in this state: strings in series, each clamped
ModuleVoltageNow(mod, current, raises) ==
  SumSeq([s \in 1 .. Len(mod) |->
    Max(-Vf, SumSeq([i \in 1 .. Len(mod[s]) |->
                       CellVoltageNow(mod[s][i], current, raises)]))])

\* C10: find_mpp samples 30 (fast) or 100 evenly spaced currents over the default
\* range, and returns a sampled point with power = voltage x current that no
\* sampled point exceeds, the one of lowest current among those that tie.
C10_MppIsSampledMaximum ==
  result.op = "find_mpp" =>
    /\ Len(result.ret.iv_data.currents) = (IF result.fast THEN 30 ELSE 100)
    /\ Len(result.ret.iv_data.powers) = Len(result.ret.iv_data.currents)
    /\ \A k \in 1 .. Len(result.ret.iv_data.currents) :
         /\ result.ret.iv_data.currents[k] =
              Quot(DefaultIMax(result.mod) * (k - 1),
                   Len(result.ret.iv_data.currents) - 1)
         /\ result.ret.iv_data.voltages[k] =
              ModuleVoltageNow(result.mod, result.ret.iv_data.currents[k], result.raises)
         /\ result.ret.iv_data.powers[k] =
              result.ret.iv_data.voltages[k] * result.ret.iv_data.currents[k]
         /\ result.ret.iv_data.powers[k] <= result.ret.power
         /\ result.ret.iv_data.powers[k] = result.ret.power =>
              result.ret.current <= result.ret.iv_data.currents[k]
    /\ \E k \in 1 .. Len(result.ret.iv_data.currents) :
         /\ result.ret.current = result.ret.iv_data.currents[k]
         /\ result.ret.voltage = result.ret.iv_data.voltages[k]
         /\ result.ret.power = result.ret.iv_data.powers[k]
    /\ result.ret.power = result.ret.voltage * result.ret.current

\* a full sweep of a partially shaded module whose maximum lies inside the range
C10_Witness ==
  /\ result.op = "find_mpp"
  /\ ~result.fast
  /\ \E s \in 1 .. Len(result.mod) : \E i \in 1 .. Len(result.mod[s]) :
       result.mod[s][i] = 50
  /\ result.ret.power > 0
  /\ result.ret.current > 0
  /\ result.ret.current < result.ret.iv_data.currents[Len(result.ret.iv_data.currents)]
  /\ \E k \in 1 .. Len(result.ret.iv_data.powers) :
       result.ret.iv_data.powers[k] < result.ret.power

\* C8: with the LUT initialised on the background thread, a request never waits
\* for it, every cell is solved exactly while the interpolator is unpublished,
\* and all the cell voltages of one module_voltage_at_current call come from the
\* same path, all exact or all interpolated.
C8_AtomicSwitch ==
  /\ req.pc = "cells" => ENABLED RequestStep
  /\ (req.pc = "cells" /\ ~lut_loaded) =>
       \A i \in 1 .. Len(req.cells) : req.cells[i].path = "exact"
  /\ result.op = "module_voltage_at_current" =>
       \/ \A i \in 1 .. Len(result.paths) : result.paths[i] = "exact"
       \/ \A i \in 1 .. Len(result.paths) : result.paths[i] = "lut"

\* C11: analyze_hotspots lists exactly the cells whose voltage at the current is
\* strictly negative, bypassed strings included, each once and in string and cell
\* order, with its 0-based string and cell index, its voltage and power =
\* -voltage x current; total_hotspot_power is the sum of the listed powers,
\* num_hotspots the length of the list, and at a current above 0 every listed
\* power is strictly positive.
C11_HotspotList ==
  result.op = "analyze_hotspots" =>
    /\ {<<result.ret.hotspots[k].string + 1, result.ret.hotspots[k].cell + 1>> :
          k \in 1 .. Len(result.ret.hotspots)}
         = {c \in (1 .. Len(result.mod)) \X (1 .. CellsPerString) :
              CellVoltageNow(result.mod[c[1]][c[2]], result.current, result.raises) < 0}
    /\ \A k, l \in 1 .. Len(result.ret.hotspots) :
         k < l =>
           \/ result.ret.hotspots[k].string < result.ret.hotspots[l].string
           \/ /\ result.ret.hotspots[k].string = result.ret.hotspots[l].string
              /\ result.ret.hotspots[k].cell < result.ret.hotspots[l].cell
    /\ \A k \in 1 .. Len(result.ret.hotspots) :
         /\ result.ret.hotspots[k].voltage =
              CellVoltageNow(result.mod[result.ret.hotspots[k].string + 1]
                                       [result.ret.hotspots[k].cell + 1],
                             result.current, result.raises)
         /\ result.ret.hotspots[k].power =
              -result.ret.hotspots[k].voltage * result.current
         /\ result.current > 0 => result.ret.hotspots[k].power > 0
    /\ result.ret.total_hotspot_power =
         SumSeq([k \in 1 .. Len(result.ret.hotspots) |-> result.ret.hotspots[k].power])
    /\ result.ret.num_hotspots = Len(result.ret.hotspots)

\* a module with a cell in reverse bias inside a bypassed string, listed, next to
\* cells that are not listed
C11_Witness ==
  /\ result.op = "analyze_hotspots"
  /\ result.ret.num_hotspots >= 1
  /\ result.ret.num_hotspots < Len(result.mod) * CellsPerString
  /\ result.ret.bypass_states[result.ret.hotspots[1].string + 1]
  /\ result.ret.total_hotspot_power # 0

\* the evaluation in hand repeats the first evaluation of the object, with the
\* same LUT published
RepeatsFirstQuery ==
  /\ first_query # NoQuery
  /\ result # Idle
  /\ result.op = first_query.op
  /\ result.arg = first_query.arg
  /\ result.loaded = first_query.loaded
  /\ result.interpolator = first_query.interpolator

C13_ShadedStringBypassed ==
  (/\ result.op = "update_bypass_analysis"
   /\ result.num_cells = 8
   /\ result.intensity = 100
   /\ result.current = 500)
  => LET sr == result.ret.string_results[1]
     IN  /\ sr.bypass_active
         /\ sr.voltage = -Vf
         /\ sr.raw_string_voltage < -Vf

\* C14: a fully shaded cell (shading factor 1.0) forced to carry 5 A has its
\* operating point deep in reverse bias, in the breakdown region, and
\* hotspot_power(5.0) is strictly positive.
C14_ShadedCellReverseBiased ==
  (/\ result.op = "hotspot_power"
   /\ result.sh = 100
   /\ result.current = 500)
  => /\ result.ret.voltage < 0
     /\ is_in_breakdown(result.ret.voltage)
     /\ result.ret.power > 0

\* the same Python value: equal under ==, whatever subclass of str holds a string
PyEqual(x, y) ==
  /\ x.v = y.v
  /\ (x.t \in {"str", "np.str_"}) = (y.t \in {"str", "np.str_"})
  /\ (x.t = "int") = (y.t = "int")
  /\ (x.t = "float") = (y.t = "float")

\* C15: load_lut(path) after save_lut(d, path) restores the voltage grid, the four
\* axis arrays and the metadata with the parameter hash of d, and the saved file
\* passes check_lut_validity when d was generated from the current parameters.
C15_SaveLoadRoundTrip ==
  \A d \in LutDatas :
    (result.op = "load_lut" /\ result.file = save_lut(d)) =>
      /\ ~result.ret.raised
      /\ result.ret.lut_data.gen = d.gen
      /\ result.ret.lut_data.shape = d.shape
      /\ result.ret.lut_data.grids = d.grids
      /\ result.ret.lut_data.cell_params_hash = d.cell_params_hash
      /\ PyEqual(result.ret.lut_data.metadata.generation_date,
                 d.metadata.generation_date)
      /\ \A k \in DOMAIN d.metadata.grid_shapes :
           PyEqual(result.ret.lut_data.metadata.grid_shapes[k],
                   d.metadata.grid_shapes[k])
      /\ PyEqual(result.ret.lut_data.metadata.total_size_mb, d.metadata.total_size_mb)
      /\ (d.cell_params_hash = get_cell_params_hash(CurrentParams) => result.valid)

\* a cache saved from freshly generated data has been loaded back
C15_Witness ==
  /\ result.op = "load_lut"
  /\ result.file = save_lut(generate_lut)
  /\ result.ret.lut_data.grids = Grids
  /\ result.valid

\* C16: an exported LUT holds the axis arrays of the cache its grid was loaded
\* from, the grid flattened in row-major order and the grid's shape; the flattened
\* grid has product(shape) values and each axis as many values as its entry of shape.
C16_ExportMatchesCache ==
  (result.op = "export" /\ result.ret.status = "ok") =>
    /\ result.ret.irradiance = tolist(result.file.irradiance_grid)
    /\ result.ret.temperature = tolist(result.file.temperature_grid)
    /\ result.ret.shading = tolist(result.file.shading_grid)
    /\ result.ret.current = tolist(result.file.current_grid)
    /\ result.ret.voltage_lut.gen = result.file.gen
    /\ result.ret.voltage_lut.order = "C"
    /\ result.ret.shape = result.file.shape
    /\ result.ret.voltage_lut.size = Product(result.ret.shape)
    /\ Len(result.ret.irradiance) = result.ret.shape[1]
    /\ Len(result.ret.temperature) = result.ret.shape[2]
    /\ Len(result.ret.shading) = result.ret.shape[3]
    /\ Len(result.ret.current) = result.ret.shape[4]

\* C17: the percent values generate_lut passes to progress_callback never
\* decrease, lie within 0..100 and start at 0; the last one is 100, and 100 is
\* reported only once every grid point has been computed.
C17_ProgressMonotone ==
  lutgen.pc # "off" =>
    LET r == lutgen.reported
    IN  /\ \A i \in 1 .. Len(r) - 1 : r[i].percent <= r[i + 1].percent
        /\ \A i \in 1 .. Len(r) : r[i].percent \in 0 .. 100
        /\ r # <<>> => r[1].percent = 0
        /\ \A i \in 1 .. Len(r) :
             r[i].percent = 100 => r[i].computed = Product(ShapeOf(Grids))
        /\ (lutgen.pc = "done" /\ lutgen.callback) =>
             (r # <<>> /\ r[Len(r)].percent = 100)

\* a generation with a callback has finished, having reported 50 on the way
C17_Witness ==
  /\ lutgen.pc = "done"
  /\ lutgen.callback
  /\ \E i \in 1 .. Len(lutgen.reported) : lutgen.reported[i].percent = 50
  /\ lutgen.reported[Len(lutgen.reported)].percent = 100

\* C19: for every cell and every target current I with 0 <= I <= Iph,
\* current(find_operating_point(I)) equals I within 1e-3 A (1 mA).
C19_RoundTrip ==
  (result.op = "round_trip" /\ 0 <= result.target /\ result.target <= result.ret.Iph)
    => Abs(result.ret.i_check - result.target) <= 1

\* C20: with a LUT generated from the current constants, the interpolated cell
\* voltage at a point inside the grid ranges is within 0.1 V of the exact solver's,
\* and the module MPP found with LUT cells is within 0.1 V and 5 W of the MPP
\* found with exact cells.
C20_LutAccuracy ==
  (lut_loaded /\ lut_interpolator.built /\ lut_interpolator.gen = CurrentParams) =>
    /\ (/\ result.op = "find_operating_point"
        /\ result.ret.path = "lut"
        /\ 0 <= result.current
        /\ result.current <= GridMaxCurrent) =>
          Abs(result.ret.v - find_operating_point(result.sh, result.current)) < 100
    /\ result.op = "lut_performance" =>
          (result.ret.voltage_diff < 100 /\ result.ret.power_diff < 500000)

\* C21: a constructed cell holds a shading factor within [0, 1]; its photocurrent
\* is not above that of a cell built with a smaller shading factor, not below that
\* of a cell built at a lower irradiance (other arguments equal), and is zero at
\* shading factor 1.
C21_PhotocurrentMonotone ==
  result.op = "SolarCell" =>
    /\ result.cell.shading_factor \in 0 .. 100
    /\ \A sh \in ShadingArgs :
         sh <= result.shading_factor =>
           result.cell.Iph <= SolarCellAt(result.irradiance, result.temperature, sh).Iph
    /\ \A irr \in IrradianceArgs :
         irr <= result.irradiance =>
           SolarCellAt(irr, result.temperature, result.shading_factor).Iph
             <= result.cell.Iph
    /\ result.cell.shading_factor = 100 => result.cell.Iph = 0

\* a cell built with a shading factor above 1 at full irradiance: clipped, dark
C21_Witness ==
  /\ result.op = "SolarCell"
  /\ result.shading_factor = 150
  /\ result.irradiance = 1000
  /\ result.cell.shading_factor = 100
  /\ result.cell.Iph = 0

\* C22: current(V) is continuous at V = -0.95 * Vbr: the avalanche branch's value
\* at the boundary and the values one millivolt above (single-diode branch) and
\* below differ by no more than 0.01 A, for every cell.
C22_ContinuousAtBoundary ==
  (result.op = "current" /\ result.voltage = BoundaryVoltage) =>
    LET Iph == Photocurrent(result.sh)
        Is == SaturationCurrent(Iph)
    IN  /\ Abs(CellCurrent(BoundaryVoltage + 1, Iph, Is, HalfV) - result.ret) <= 1
        /\ Abs(CellCurrent(BoundaryVoltage - 1, Iph, Is, HalfV) - result.ret) <= 1

\* C23: when neither bracket holds a root, find_operating_point returns without
\* raising: Voc * (1 - I/Iph) for a forward target 0 <= I <= Iph, and the breakdown
\* voltage -Vbr for a target above Iph.
C23_AnalyticFallback ==
  (result.op = "SolarCell.find_operating_point" /\ ~result.bracketed) =>
    LET Iph == Photocurrent(result.sh)
        Voc == get_Voc(Iph, SaturationCurrent(Iph))
    IN  /\ ~result.raised
        /\ (0 <= result.current /\ result.current <= Iph /\ Iph > 0) =>
              result.ret = Voc - Quot(Voc * result.current, Iph)
        /\ result.current > Iph => result.ret = -Vbr

C25_PublicationOrder ==
  /\ lut_status.initialized =>
        /\ lut_loaded
        /\ lut_interpolator.built
        /\ tpc = "done"
  /\ tpc \in {"create", "set_interpolator", "set_loaded", "status"} =>
        cache.exists /\ cache.readable
  /\ (result.op = "export" /\ result.ret.status \in {"ok", "error"}) =>
        result.tpc = "done"

\* an export answered from a cache file this run generated and saved
C25_Witness ==
  /\ result.op = "export"
  /\ result.ret.status = "ok"
  /\ result.file = save_lut(generate_lut)
  /\ lut_status.initialized

\* C26: initialize_lut_system ends in exactly one of two outcomes: 'initialized'
\* true with no error and progress 100, or 'error' set with 'initialized' false;
\* with an error no interpolator is published (lut_loaded false, none stored), and
\* every cell of a module evaluation then takes the exact solver and returns.
C26_TwoOutcomes ==
  /\ tpc = "done" =>
        lut_status.initialized /\ ~lut_status.error /\ lut_status.progress = 100
  /\ tpc = "failed" => lut_status.error /\ ~lut_status.initialized
  /\ lut_status.initialized => tpc = "done"
  /\ lut_status.error =>
        /\ tpc = "failed"
        /\ ~lut_loaded
        /\ ~lut_interpolator.built
        /\ result.op = "module_voltage_at_current" =>
              \A i \in 1 .. Len(result.paths) : result.paths[i] = "exact"

\* a module evaluation that returned after the startup thread had failed
C26_Witness ==
  /\ tpc = "failed"
  /\ lut_status.error
  /\ result.op = "module_voltage_at_current"
  /\ Len(result.paths) = NumStrings * CellsPerString

\* C27: a lookup interleaved with set_lut_interpolator never calls a missing or
\* half-published interpolator: the flag lut_loaded is never true without a stored
\* interpolator, a lookup that read the flag as true read a built interpolator, and
\* every lookup returns from the exact solver or from that interpolator.
C27_NoHalfPublishedLookup ==
  /\ lut_loaded => lut_interpolator.built
  /\ (req.pc = "call" /\ req.loaded) => req.interp.built
  /\ result.op = "lookup" =>
        /\ result.ret.path \in {"exact", "lut"}
        /\ ~result.ret.exc
        /\ result.ret.path = "lut" =>
              /\ result.loaded /\ result.interp.built
              /\ result.ret.v = Interpolate(result.interp, result.sh, result.current)
        /\ result.ret.path = "exact" =>
              result.ret.v = find_operating_point(result.sh, result.current)

\* a lookup that read the flag as false while the interpolator was already stored
\* (between the two statements of set_lut_interpolator) and took the exact solver
C27_Witness ==
  /\ result.op = "lookup"
  /\ ~result.loaded
  /\ result.ret.path = "exact"
  /\ lut_interpolator.built

\* C28: the result of find_mpp is self-consistent, also when the startup thread
\* publishes the interpolator while find_mpp runs: details['current'] is the
\* returned current, details['voltage'] the returned voltage and
\* details['total_power'] the returned power.
C28_MppSelfConsistent ==
  (result.op = "find_mpp" /\ "details_loaded" \in DOMAIN result) =>
    /\ result.ret.details.current = result.ret.current
    /\ result.ret.details.voltage = result.ret.voltage
    /\ result.ret.details.total_power = result.ret.power

\* C29: lut_status['progress'] never decreases during startup, on the load path
\* and on the generate path, and it is 100 only when generation, saving and the
\* publication of the interpolator are all complete.
C29_StatusProgressMonotone ==
  /\ [][lut_status'.progress >= lut_status.progress]_vars
  /\ [](lut_status.progress = 100 =>
          /\ tpc = "done"
          /\ lut_loaded /\ lut_interpolator.built
          /\ cache.exists /\ cache.readable)

\* C30: GET /api/lut answers 503 while lut_status['initialized'] is false, 404
\* when the cache file does not exist, 500 when loading raises and the export
\* otherwise; it always answers (no exception leaves the handler), and LUT data
\* is returned only after the startup thread has completed.
C30_ApiLutStatus ==
  result.op = "api_get_lut" =>
    /\ result.ret.code \in {200, 404, 500, 503}
    /\ result.ret.code = 503 <=> ~result.initialized
    /\ result.initialized => result.tpc = "done"
    /\ result.ret.code = 404 <=> (result.initialized /\ ~result.file.exists)
    /\ result.ret.code = 500 <=>
          (result.initialized /\ result.file.exists /\ load_lut(result.file).raised)
    /\ result.ret.code = 200 =>
          /\ result.tpc = "done"
          /\ result.ret.body = lut_export(load_lut(result.file).lut_data)
          /\ result.ret.body.voltage_lut.gen = result.file.gen

\* the four answers: here the 500 of a damaged cache file after a completed startup
\* (the 503, 404 and 200 answers occur in the same runs)
C30_Witness ==
  /\ result.op = "api_get_lut"
  /\ result.ret.code = 500
  /\ lut_status.initialized

====
